---- MODULE Spec2Model ----
\* Verification model of the MIDI Captain config editor backend
\* (config-editor/src-tauri/src: device.rs, commands.rs, config.rs).
\*
\* Part 1: the device watcher (device.rs): the process-wide flag, the shutdown
\*         channel, the start/stop commands and the background loop in its two
\*         platform variants (filesystem events on unix, polling on windows).
EXTENDS Integers, Sequences, FiniteSets, Bags, TLC

\* ------------------------------------------------------------------ bounds
\* Number of shutdown channels (one per start that passed the flag test).
MaxWatchers == 2
\* Number of concurrent command callers (UI invocations in flight).
NCallers == 2
\* Number of volume slots of the host (drive letters / directory entries).
NDrives == 2
\* Capacity of the filesystem-event queue kept in the model.
MaxQueue == 1
\* Number of environment occurrences (mount, unmount, unrelated event) in a run
\* that starts from a host without volumes.
MaxEnvLife == 1
\* Number of environment occurrences in a run of the polling watcher.
MaxEnv == 2

Callers == 1..NCallers
Chans == 1..MaxWatchers
Drives == 1..NDrives

\* ------------------------------------------------------------ device names
\* device.rs:15  const DEVICE_VOLUMES
DEVICE_VOLUMES == {"CIRCUITPY", "MIDICAPTAIN"}

\* Volume labels a host may show.
VolNames == {"CIRCUITPY", "midicaptain", "Other"}

\* u8::to_ascii_uppercase over every byte of the string, on the names used here.
ToAsciiUpper(s) ==
    CASE s = "midicaptain" -> "MIDICAPTAIN"
      [] s = "circuitpy" -> "CIRCUITPY"
      [] s = "Other" -> "OTHER"
      [] s = "config.json" -> "CONFIG.JSON"
      [] s = "missing.json" -> "MISSING.JSON"
      [] s = "u" -> "U"
      [] s = "link" -> "LINK"
      [] OTHER -> s

\* A comparison that respects case.
eq_exact(a, b) == a = b

\* str::eq_ignore_ascii_case
eq_ignore_ascii_case(a, b) == ToAsciiUpper(a) = ToAsciiUpper(b)

\* DEVICE_VOLUMES.iter().any(|v| name.eq_ignore_ascii_case(v))
IsDeviceName(name) == \E v \in DEVICE_VOLUMES : eq_ignore_ascii_case(name, v)

\* ------------------------------------------------------------------- state
VARIABLES
    platform,         \* "unix" | "windows": which cfg(target_os) variant was built
    WATCHER_STARTED,  \* device.rs:165 AtomicBool
    SHUTDOWN_TX,      \* device.rs:168 Mutex<Option<Sender<()>>>: 0 = None, else channel
    nchan,            \* number of shutdown channels created so far
    msgs,             \* msgs[ch]: stop messages buffered in shutdown channel ch
    thr,              \* thr[ch]: position of the thread that owns receiver ch
    known_devices,    \* known_devices[ch]: the polling thread's HashSet<String>
    rx,               \* rx[ch]: the event thread's queue of notify events
    watching,         \* channels whose notify watcher is subscribed
    emitted,          \* notifications emitted by the latest loop iteration
    call,             \* call[c]: the command a caller is inside, and its result
    vols,             \* vols[d]: the volume in slot d, or NoVol
    envLeft,          \* environment occurrences still to come
    stopReq,          \* stopReq[ch]: stop was called while thread ch was looping
    afterStop,        \* afterStop[ch]: loop bodies begun after that call
    lastPoll,         \* the latest poll cycle: its thread, known-set and scan
    \* --- the config commands (commands.rs) and the filesystem they act on
    mnt,              \* mnt[mp]: state of the volume at mount point mp
    wcall,            \* the write command in flight: inputs, position, result
    written,          \* the file writes performed: target and medium
    fsLeft,           \* filesystem occurrences (unmount, mount) still to come
    \* --- the validator (config.rs)
    vin,              \* the JSON text handed to validate_config
    vout,             \* validate_config's result
    rt                \* a config text on its way through from_str and to_string_pretty

watcherVars == <<platform, WATCHER_STARTED, SHUTDOWN_TX, nchan, msgs, thr,
                 known_devices, rx, watching, emitted, call, vols, envLeft,
                 stopReq, afterStop, lastPoll>>
writerVars == <<mnt, wcall, written, fsLeft>>
validatorVars == <<vin, vout, rt>>

vars == <<watcherVars, writerVars, validatorVars>>

NoVol == [name |-> "", has_config |-> FALSE, present |-> FALSE]
Volume(n, h) == [name |-> n, has_config |-> h, present |-> TRUE]
VolumeStates == {NoVol} \cup {Volume(n, h) : n \in VolNames, h \in BOOLEAN}

NoDevice == [name |-> "", path |-> 0, config_path |-> <<>>, has_config |-> FALSE,
             some |-> FALSE]

NoPoll == [ch |-> 0, known |-> {}, scan |-> <<>>]

IdleCall == [pc |-> "idle", ch |-> 0, ret |-> "none", op |-> "none",
             found |-> "none", setup |-> "none"]

\* A directory holds one entry per name; drive letters may carry equal labels.
NamesUnique(v) ==
    \A d1, d2 \in Drives :
        (d1 # d2 /\ v[d1].present /\ v[d2].present) => v[d1].name # v[d2].name

\* device.rs:164-168 the statics before any command has run.
WatcherStopped ==
    /\ WATCHER_STARTED = FALSE
    /\ SHUTDOWN_TX = 0
    /\ nchan = 0
    /\ msgs = [ch \in Chans |-> 0]
    /\ thr = [ch \in Chans |-> "none"]
    /\ known_devices = [ch \in Chans |-> {}]
    /\ rx = [ch \in Chans |-> <<>>]
    /\ watching = {}
    /\ emitted = <<>>
    /\ call = [c \in Callers |-> IdleCall]
    /\ envLeft = MaxEnvLife
    /\ stopReq = [ch \in Chans |-> FALSE]
    /\ afterStop = [ch \in Chans |-> 0]
    /\ lastPoll = NoPoll

\* The host at program start: no volume, or a device already plugged in.
NoVolumes == [d \in Drives |-> NoVol]
StartVolumes ==
    {NoVolumes, [NoVolumes EXCEPT ![1] = Volume("CIRCUITPY", TRUE)]}

InitWatcher ==
    /\ platform \in {"unix", "windows"}
    /\ vols \in StartVolumes
    /\ WatcherStopped

\* ------------------------------------------------------------ classification
\* device.rs:77-117 get_volume_name: the drive's label on windows (None when
\* GetVolumeInformationW fails), the path's final component elsewhere.
\* A volume path is a drive slot on windows and an entry name on unix.
get_volume_name(path) ==
    IF platform = "windows"
    THEN (IF vols[path].present THEN vols[path].name ELSE "")
    ELSE path

\* config_path.exists()
ConfigExists(path) ==
    IF platform = "windows"
    THEN vols[path].present /\ vols[path].has_config
    ELSE \E d \in Drives :
            vols[d].present /\ vols[d].name = path /\ vols[d].has_config

\* device.rs:119-136 check_volume
check_volume(path) ==
    LET name == get_volume_name(path) IN
    IF name # "" /\ IsDeviceName(name)
    THEN [name |-> name, path |-> path, config_path |-> <<path, "config.json">>,
          has_config |-> ConfigExists(path), some |-> TRUE]
    ELSE NoDevice

\* device.rs:46-65 scan_windows_drives: drive letters in ascending order.
RECURSIVE ScanDrivesFrom(_)
ScanDrivesFrom(d) ==
    IF d > NDrives THEN <<>>
    ELSE LET rest == ScanDrivesFrom(d + 1)
             dev == check_volume(d)
         IN IF vols[d].present /\ dev.some THEN <<dev>> \o rest ELSE rest

scan_windows_drives == ScanDrivesFrom(1)


\* ------------------------------------------------------------ notifications
\* app.emit("device-connected", device)
Connected(dev) == [ev |-> "device-connected", name |-> dev.name,
                   path |-> dev.path, config_path |-> dev.config_path,
                   has_config |-> dev.has_config]
\* app.emit("device-disconnected", name)
Disconnected(name) == [ev |-> "device-disconnected", name |-> name]

\* ------------------------------------------------ polling reconciliation
\* device.rs:225 known_devices.insert(device.name), skipped: the insert is lost.
InsertKnownLost(known, name) == known

\* device.rs:225 known_devices.insert(device.name)
InsertKnown(known, name) == known \cup {name}

\* device.rs:222-227: for device in current_devices, emit and insert the
\* names not yet known.  The accumulator carries the set and the emissions.
RECURSIVE ConnectNew(_, _, _)
ConnectNew(devs, known, out) ==
    IF devs = <<>> THEN [known |-> known, out |-> out]
    ELSE LET dev == Head(devs) IN
         IF dev.name \notin known
         THEN ConnectNew(Tail(devs), InsertKnown(known, dev.name),
                         Append(out, Connected(dev)))
         ELSE ConnectNew(Tail(devs), known, out)

\* device.rs:218-219 current_names
CurrentNames(devs) == {devs[i].name : i \in 1..Len(devs)}

\* Enumerations of a set: the iteration order of a HashSet is unspecified.
Orderings(S) ==
    {s \in [1..Cardinality(S) -> S] :
        \A i, j \in 1..Cardinality(S) : i # j => s[i] # s[j]}

\* device.rs:230-238: the names to disconnect, those removed from the set.
DisconnectedNames(known, devs) == known \ CurrentNames(devs)

\* device.rs:217-238 one poll cycle on known-set K and scan result devs, the
\* disconnected names visited in the order given.
PollCycle(K, devs, order) ==
    LET c == ConnectNew(devs, K, <<>>) IN
    [known |-> c.known \ {order[i] : i \in 1..Len(order)},
     out |-> c.out \o [i \in 1..Len(order) |-> Disconnected(order[i])]]

\* ------------------------------------------------------- event handling
\* device.rs:293-300 EventKind::Create: classify every affected path.
RECURSIVE HandleCreate(_)
HandleCreate(paths) ==
    IF paths = <<>> THEN <<>>
    ELSE LET dev == check_volume(Head(paths)) IN
         (IF dev.some THEN <<Connected(dev)>> ELSE <<>>) \o HandleCreate(Tail(paths))

\* device.rs:301-311 EventKind::Remove: match the final component by name.
RECURSIVE HandleRemove(_)
HandleRemove(paths) ==
    IF paths = <<>> THEN <<>>
    ELSE (IF IsDeviceName(Head(paths)) THEN <<Disconnected(Head(paths))>> ELSE <<>>)
         \o HandleRemove(Tail(paths))

\* device.rs:292-313 with the catch-all arm `_ => {}` handling the event as a
\* creation.
HandleEventAnyKind(event) ==
    IF event.kind = "Remove" THEN HandleRemove(event.paths)
    ELSE HandleCreate(event.paths)

\* device.rs:292-313 match event.kind
HandleEvent(event) ==
    CASE event.kind = "Create" -> HandleCreate(event.paths)
      [] event.kind = "Remove" -> HandleRemove(event.paths)
      [] OTHER -> <<>>

\* rx.recv_timeout that never times out (a blocking recv).
RecvBlocking(queue) == IF queue # <<>> THEN "event" ELSE "blocked"

\* device.rs:290 rx.recv_timeout(100ms): an event when one is queued, Timeout
\* otherwise.  Disconnected cannot happen: the sending closure belongs to the
\* watcher the thread itself keeps alive (device.rs:281).
RecvTimeout(queue) == IF queue # <<>> THEN "event" ELSE "timeout"


\* ------------------------------------------------------ start / stop commands
\* Threads that exist: spawned and not yet ended.
LiveThreads == {ch \in Chans : thr[ch] \in {"init", "top", "body", "exit"}}
StartInProgress == \E c \in Callers : call[c].pc \in {"store", "setup", "spawn"}

\* What a start call finds: the watcher Stopped (no thread and no other start
\* on its way to one) or Running.
WatcherFound == IF LiveThreads = {} /\ ~StartInProgress THEN "stopped" ELSE "running"

\* start_device_watcher without the early return: the flag is set and the
\* caller goes on whatever the flag was.
start_device_watcher_unguarded(c) ==
    /\ call[c].pc = "idle"
    /\ nchan < MaxWatchers
    /\ WATCHER_STARTED' = TRUE
    /\ call' = [call EXCEPT ![c] =
                  [pc |-> "store", ch |-> 0, ret |-> "none", op |-> "start",
                   found |-> WatcherFound, setup |-> "none"]]
    /\ UNCHANGED <<writerVars, validatorVars>>
    /\ UNCHANGED <<platform, SHUTDOWN_TX, nchan, msgs, thr, known_devices, rx,
                   watching, emitted, vols, envLeft, stopReq, afterStop,
                   lastPoll>>

\* start_device_watcher that creates the shutdown channel and stores its
\* sender before it tests the flag.
start_device_watcher_clobber(c) ==
    /\ call[c].pc = "idle"
    /\ nchan < MaxWatchers
    /\ WATCHER_STARTED' = TRUE
    /\ nchan' = nchan + 1
    /\ SHUTDOWN_TX' = nchan + 1
    /\ call' = [call EXCEPT ![c] =
                  IF WATCHER_STARTED
                  THEN [pc |-> "idle", ch |-> 0, ret |-> "Ok", op |-> "start",
                        found |-> WatcherFound, setup |-> "none"]
                  ELSE [pc |-> IF platform = "unix" THEN "setup" ELSE "spawn",
                        ch |-> nchan + 1, ret |-> "none", op |-> "start",
                        found |-> WatcherFound, setup |-> "none"]]
    /\ UNCHANGED <<writerVars, validatorVars>>
    /\ UNCHANGED <<platform, msgs, thr, known_devices, rx,
                   watching, emitted, vols, envLeft, stopReq, afterStop,
                   lastPoll>>

\* device.rs:174-178 start_device_watcher: the atomic swap and the early
\* return.  A caller that found the flag clear goes on into the platform's
\* start function.
start_device_watcher(c) ==
    /\ call[c].pc = "idle"
    /\ (WATCHER_STARTED \/ nchan < MaxWatchers)
    /\ WATCHER_STARTED' = TRUE
    /\ call' = [call EXCEPT ![c] =
                  IF WATCHER_STARTED
                  THEN [pc |-> "idle", ch |-> 0, ret |-> "Ok", op |-> "start",
                        found |-> WatcherFound, setup |-> "none"]
                  ELSE [pc |-> "store", ch |-> 0, ret |-> "none", op |-> "start",
                        found |-> WatcherFound, setup |-> "none"]]
    /\ UNCHANGED <<writerVars, validatorVars>>
    /\ UNCHANGED <<platform, SHUTDOWN_TX, nchan, msgs, thr, known_devices, rx,
                   watching, emitted, vols, envLeft, stopReq, afterStop,
                   lastPoll>>

\* device.rs:194-199 / 254-260: create the shutdown channel and store its
\* sender in SHUTDOWN_TX (the previous sender, if any, is dropped).
StoreShutdownTx(c) ==
    /\ call[c].pc = "store"
    /\ nchan' = nchan + 1
    /\ SHUTDOWN_TX' = nchan + 1
    /\ call' = [call EXCEPT ![c].pc = IF platform = "unix" THEN "setup" ELSE "spawn",
                            ![c].ch = nchan + 1]
    /\ UNCHANGED <<writerVars, validatorVars>>
    /\ UNCHANGED <<platform, WATCHER_STARTED, msgs, thr, known_devices, rx,
                   watching, emitted, vols, envLeft, stopReq, afterStop,
                   lastPoll>>

\* device.rs:262-276: RecommendedWatcher::new and watcher.watch, each of which
\* may fail; a failure returns Err through `?` and drops both receivers.
SetupOutcomes == {"ok", "new_failed", "watch_failed"}

SetupWatcher(c, outcome) ==
    /\ call[c].pc = "setup"
    /\ IF outcome = "ok"
       THEN /\ watching' = watching \cup {call[c].ch}
            /\ call' = [call EXCEPT ![c].pc = "spawn", ![c].setup = outcome]
       ELSE /\ watching' = watching
            /\ call' = [call EXCEPT ![c].pc = "idle", ![c].ret = "Err",
                                    ![c].setup = outcome]
    /\ UNCHANGED <<writerVars, validatorVars>>
    /\ UNCHANGED <<platform, WATCHER_STARTED, SHUTDOWN_TX, nchan, msgs, thr,
                   known_devices, rx, emitted, vols, envLeft, stopReq,
                   afterStop, lastPoll>>

\* device.rs:202 / 279 std::thread::spawn, then Ok(()).
SpawnThread(c) ==
    /\ call[c].pc = "spawn"
    /\ thr' = [thr EXCEPT ![call[c].ch] = IF platform = "unix" THEN "top" ELSE "init"]
    /\ call' = [call EXCEPT ![c].pc = "idle", ![c].ret = "Ok"]
    /\ UNCHANGED <<writerVars, validatorVars>>
    /\ UNCHANGED <<platform, WATCHER_STARTED, SHUTDOWN_TX, nchan, msgs,
                   known_devices, rx, watching, emitted, vols, envLeft, stopReq,
                   afterStop, lastPoll>>

\* Thread ch is inside its loop (initial scan included).
Looping(ch) == thr[ch] \in {"init", "top", "body"}

\* The receiver of channel ch is alive: held by a start call on its way to the
\* spawn, or by the thread it was moved into.
ReceiverAlive(ch) ==
    \/ thr[ch] \in {"init", "top", "body", "exit"}
    \/ \E c \in Callers : call[c].ch = ch /\ call[c].pc \in {"setup", "spawn"}

\* stop_device_watcher that also clears the running flag.
stop_device_watcher_reset(c) ==
    /\ call[c].pc = "idle"
    /\ SHUTDOWN_TX' = 0
    /\ WATCHER_STARTED' = FALSE
    /\ IF SHUTDOWN_TX # 0
       THEN msgs' = [msgs EXCEPT ![SHUTDOWN_TX] =
                          IF ReceiverAlive(SHUTDOWN_TX) THEN @ + 1 ELSE @]
       ELSE UNCHANGED msgs
    /\ stopReq' = [ch \in Chans |-> stopReq[ch] \/ Looping(ch)]
    /\ call' = [call EXCEPT ![c] = [IdleCall EXCEPT !.ret = "Ok", !.op = "stop"]]
    /\ UNCHANGED <<writerVars, validatorVars>>
    /\ UNCHANGED <<platform, nchan, thr, known_devices, rx,
                   watching, emitted, vols, envLeft, afterStop, lastPoll>>

\* device.rs:334-341 stop_device_watcher: take the sender and send on it.
stop_device_watcher(c) ==
    /\ call[c].pc = "idle"
    /\ SHUTDOWN_TX' = 0
    /\ IF SHUTDOWN_TX # 0
       THEN msgs' = [msgs EXCEPT ![SHUTDOWN_TX] =
                          IF ReceiverAlive(SHUTDOWN_TX) THEN @ + 1 ELSE @]
       ELSE UNCHANGED msgs
    /\ stopReq' = [ch \in Chans |-> stopReq[ch] \/ Looping(ch)]
    /\ call' = [call EXCEPT ![c] = [IdleCall EXCEPT !.ret = "Ok", !.op = "stop"]]
    /\ UNCHANGED <<writerVars, validatorVars>>
    /\ UNCHANGED <<platform, WATCHER_STARTED, nchan, thr, known_devices, rx,
                   watching, emitted, vols, envLeft, afterStop, lastPoll>>


\* ------------------------------------------------------ the background thread
\* device.rs:203-208 the polling thread's initial scan.
ThreadInitialScan(ch) ==
    /\ thr[ch] = "init"
    /\ known_devices' = [known_devices EXCEPT ![ch] = CurrentNames(scan_windows_drives)]
    /\ thr' = [thr EXCEPT ![ch] = "top"]
    /\ UNCHANGED <<writerVars, validatorVars>>
    /\ UNCHANGED <<platform, WATCHER_STARTED, SHUTDOWN_TX, nchan, msgs, rx,
                   watching, emitted, call, vols, envLeft, stopReq, afterStop,
                   lastPoll>>

\* device.rs:212 / 285 shutdown_rx.try_recv().is_ok(): a buffered message is
\* received even after its sender was dropped.
TryRecvOk(ch) == msgs[ch] > 0

\* device.rs:211-214 / 284-287 the loop head: break on a stop message.
ThreadCheckShutdown(ch) ==
    /\ thr[ch] = "top"
    /\ IF TryRecvOk(ch)
       THEN /\ msgs' = [msgs EXCEPT ![ch] = @ - 1]
            /\ thr' = [thr EXCEPT ![ch] = "exit"]
       ELSE /\ msgs' = msgs
            /\ thr' = [thr EXCEPT ![ch] = "body"]
    /\ UNCHANGED <<writerVars, validatorVars>>
    /\ UNCHANGED <<platform, WATCHER_STARTED, SHUTDOWN_TX, nchan, known_devices,
                   rx, watching, emitted, call, vols, envLeft, stopReq,
                   afterStop, lastPoll>>

\* Loop bodies begun after stop was called on the looping thread ch (counted up to 2).
CountAfterStop(ch) ==
    [afterStop EXCEPT ![ch] = IF stopReq[ch] /\ @ < 2 THEN @ + 1 ELSE @]

\* device.rs:289-322 the event loop's body: wait at most 100 ms for an event
\* and handle it, then go back to the loop head.
ThreadRecvEvent(ch) ==
    /\ thr[ch] = "body"
    /\ platform = "unix"
    /\ RecvTimeout(rx[ch]) \in {"event", "timeout"}
    /\ IF RecvTimeout(rx[ch]) = "event"
       THEN /\ emitted' = HandleEvent(Head(rx[ch]))
            /\ rx' = [rx EXCEPT ![ch] = Tail(@)]
       ELSE /\ emitted' = <<>>
            /\ rx' = rx
    /\ thr' = [thr EXCEPT ![ch] = "top"]
    /\ afterStop' = CountAfterStop(ch)
    /\ UNCHANGED <<writerVars, validatorVars>>
    /\ UNCHANGED <<platform, WATCHER_STARTED, SHUTDOWN_TX, nchan, msgs,
                   known_devices, watching, call, vols, envLeft, stopReq,
                   lastPoll>>

\* device.rs:216-241 the polling loop's body: scan, reconcile, sleep 2 s.
ThreadPoll(ch) ==
    /\ thr[ch] = "body"
    /\ platform = "windows"
    /\ LET devs == scan_windows_drives
           K == known_devices[ch]
           gone == DisconnectedNames(ConnectNew(devs, K, <<>>).known, devs)
       IN \E order \in Orderings(gone) :
            /\ known_devices' = [known_devices EXCEPT ![ch] = PollCycle(K, devs, order).known]
            /\ emitted' = PollCycle(K, devs, order).out
            /\ lastPoll' = [ch |-> ch, known |-> K, scan |-> devs]
    /\ thr' = [thr EXCEPT ![ch] = "top"]
    /\ afterStop' = CountAfterStop(ch)
    /\ UNCHANGED <<writerVars, validatorVars>>
    /\ UNCHANGED <<platform, WATCHER_STARTED, SHUTDOWN_TX, nchan, msgs, rx,
                   watching, call, vols, envLeft, stopReq>>

\* device.rs:244-245 / 325-326 after the loop: reset the flag; the thread ends
\* and drops its receiver and, on unix, its notify watcher.
ThreadExit(ch) ==
    /\ thr[ch] = "exit"
    /\ WATCHER_STARTED' = FALSE
    /\ thr' = [thr EXCEPT ![ch] = "dead"]
    /\ watching' = watching \ {ch}
    /\ rx' = [rx EXCEPT ![ch] = <<>>]
    /\ UNCHANGED <<writerVars, validatorVars>>
    /\ UNCHANGED <<platform, SHUTDOWN_TX, nchan, msgs, known_devices, emitted,
                   call, vols, envLeft, stopReq, afterStop, lastPoll>>

ThreadStep(ch) ==
    \/ ThreadInitialScan(ch)
    \/ ThreadCheckShutdown(ch)
    \/ ThreadRecvEvent(ch)
    \/ ThreadPoll(ch)
    \/ ThreadExit(ch)

\* ------------------------------------------------------------ the environment
\* device.rs:263-267 the notify callback: tx.send(event) into every subscribed
\* watcher's queue (nothing is subscribed on windows).
Deliver(event) ==
    [ch \in Chans |-> IF ch \in watching THEN Append(rx[ch], event) ELSE rx[ch]]

QueuesHaveRoom == \A ch \in watching : Len(rx[ch]) < MaxQueue

\* A device volume is attached in slot d.
EnvMount(d, n, h) ==
    /\ envLeft > 0
    /\ ~vols[d].present
    /\ vols' = [vols EXCEPT ![d] = Volume(n, h)]
    /\ (platform = "unix" => NamesUnique(vols'))
    /\ QueuesHaveRoom
    /\ rx' = Deliver([kind |-> "Create", paths |-> <<n>>])
    /\ envLeft' = envLeft - 1
    /\ UNCHANGED <<writerVars, validatorVars>>
    /\ UNCHANGED <<platform, WATCHER_STARTED, SHUTDOWN_TX, nchan, msgs, thr,
                   known_devices, watching, emitted, call, stopReq, afterStop,
                   lastPoll>>

\* The volume in slot d is detached.
EnvUnmount(d) ==
    /\ envLeft > 0
    /\ vols[d].present
    /\ vols' = [vols EXCEPT ![d] = NoVol]
    /\ QueuesHaveRoom
    /\ rx' = Deliver([kind |-> "Remove", paths |-> <<vols[d].name>>])
    /\ envLeft' = envLeft - 1
    /\ UNCHANGED <<writerVars, validatorVars>>
    /\ UNCHANGED <<platform, WATCHER_STARTED, SHUTDOWN_TX, nchan, msgs, thr,
                   known_devices, watching, emitted, call, stopReq, afterStop,
                   lastPoll>>

\* An event of another kind (a metadata change) on the entry in slot d.
EnvModify(d) ==
    /\ envLeft > 0
    /\ vols[d].present
    /\ watching # {}
    /\ QueuesHaveRoom
    /\ rx' = Deliver([kind |-> "Modify", paths |-> <<vols[d].name>>])
    /\ envLeft' = envLeft - 1
    /\ UNCHANGED <<writerVars, validatorVars>>
    /\ UNCHANGED <<platform, WATCHER_STARTED, SHUTDOWN_TX, nchan, msgs, thr,
                   known_devices, watching, emitted, call, vols, stopReq,
                   afterStop, lastPoll>>


\* ======================================================= Part 2: the validator
\* config.rs: MidiCaptainConfig and validate.
\*
\* A String is modelled as the sequence of the UTF-8 byte widths of its
\* characters: its length in characters is the length of the sequence, and
\* String::len() is the sum of the widths.
Ascii(n) == [i \in 1..n |-> 1]
TwoByte(n) == [i \in 1..n |-> 2]

\* label.chars().count()
RECURSIVE CharCount(_)
CharCount(s) == IF s = <<>> THEN 0 ELSE 1 + CharCount(Tail(s))

\* config.rs:171 label.len(): the length in bytes.
RECURSIVE StrLen(_)
StrLen(s) == IF s = <<>> THEN 0 ELSE Head(s) + StrLen(Tail(s))

\* config.rs:168 `cc > 127`
MaxCC == 127
\* config.rs:171 `label.len() > 8`
MaxLabelLen == 8
\* config.rs:153 DeviceType::Std10 => 10
Std10Buttons == 10
\* config.rs:154 DeviceType::Mini6 => 6
Mini6Buttons == 6
\* config.rs:82-84 default_max
DefaultMax == 127
\* config.rs:85-87 default_initial
DefaultInitial == 64
\* config.rs:114-116 default_threshold
DefaultThreshold == 2

\* config.rs:41-50 ButtonConfig
ButtonConfig(label, cc) ==
    [label |-> label, cc |-> cc, color |-> "green", mode |-> "toggle",
     off_mode |-> "dim"]

\* config.rs:57-64 EncoderPush; Option::None is the record with some = FALSE.
NoPush == [some |-> FALSE, enabled |-> FALSE, cc |-> 0, label |-> <<>>,
           mode |-> "toggle"]
EncoderPush(label, cc) ==
    [some |-> TRUE, enabled |-> TRUE, cc |-> cc, label |-> label,
     mode |-> "momentary"]

\* config.rs:67-80 EncoderConfig; steps is <<>> for None and <<n>> for Some(n).
NoEncoder == [some |-> FALSE, enabled |-> FALSE, cc |-> 0, label |-> <<>>,
              min |-> 0, max |-> 0, initial |-> 0, steps |-> <<>>, push |-> NoPush]
EncoderConfig(label, cc, min, max, initial, push) ==
    [some |-> TRUE, enabled |-> TRUE, cc |-> cc, label |-> label, min |-> min,
     max |-> max, initial |-> initial, steps |-> <<>>, push |-> push]

\* config.rs:99-112 ExpressionConfig
ExpressionConfig(label, cc, min, max) ==
    [enabled |-> TRUE, cc |-> cc, label |-> label, min |-> min, max |-> max,
     polarity |-> "normal", threshold |-> DefaultThreshold]

\* config.rs:119-123 ExpressionPedals
NoExpression == [some |-> FALSE,
                 exp1 |-> ExpressionConfig(<<>>, 0, 0, 0),
                 exp2 |-> ExpressionConfig(<<>>, 0, 0, 0)]
ExpressionPedals(e1, e2) == [some |-> TRUE, exp1 |-> e1, exp2 |-> e2]

\* config.rs:135-144 MidiCaptainConfig
MidiCaptainConfig(device, buttons, encoder, expression) ==
    [device |-> device, buttons |-> buttons, encoder |-> encoder,
     expression |-> expression]

\* The messages of validate, one constructor per format! call.
MsgCount(expected, device, found) ==
    [rule |-> "count", at |-> 0, a |-> expected, b |-> found, text |-> <<>>, dev |-> device]
MsgCC(rule, at, cc) ==
    [rule |-> rule, at |-> at, a |-> cc, b |-> 0, text |-> <<>>, dev |-> ""]
MsgLabel(rule, at, label) ==
    [rule |-> rule, at |-> at, a |-> 0, b |-> 0, text |-> label, dev |-> ""]
MsgRange(rule, at, max, min) ==
    [rule |-> rule, at |-> at, a |-> max, b |-> min, text |-> <<>>, dev |-> ""]
MsgInitial(initial, min, max) ==
    [rule |-> "encoder_initial", at |-> initial, a |-> max, b |-> min, text |-> <<>>, dev |-> ""]
MsgUnsupported(rule) ==
    [rule |-> rule, at |-> 0, a |-> 0, b |-> 0, text |-> <<>>, dev |-> ""]

\* expected_buttons without the match on the device: always the Std10 count.
ExpectedButtonsStd10Only(device) == Std10Buttons

\* config.rs:152-155 expected_buttons
ExpectedButtons(device) == IF device = "std10" THEN Std10Buttons ELSE Mini6Buttons

\* config.rs:157-164 the button count
CountErrors(cfg) ==
    IF Len(cfg.buttons) # ExpectedButtons(cfg.device)
    THEN <<MsgCount(ExpectedButtons(cfg.device), cfg.device, Len(cfg.buttons))>>
    ELSE <<>>

\* config.rs:171 / 189 / 202 / 217 / 226  `label.len() > 8`
LabelTooLong(label) == StrLen(label) > MaxLabelLen

\* config.rs:167-178 for (i, button) in buttons.iter().enumerate(): the CC
\* test and then the label test of button i, before button i + 1.
RECURSIVE ButtonErrors(_, _)
ButtonErrors(buttons, i) ==
    IF i > Len(buttons) THEN <<>>
    ELSE (IF buttons[i].cc > MaxCC
          THEN <<MsgCC("button_cc", i, buttons[i].cc)>> ELSE <<>>)
         \o (IF LabelTooLong(buttons[i].label)
             THEN <<MsgLabel("button_label", i, buttons[i].label)>> ELSE <<>>)
         \o ButtonErrors(buttons, i + 1)

\* The encoder section with the initial value tested against min only.
EncoderErrorsLowerOnly(cfg) ==
    LET enc == cfg.encoder IN
    IF ~enc.some THEN <<>>
    ELSE (IF cfg.device = "mini6" THEN <<MsgUnsupported("mini6_encoder")>> ELSE <<>>)
         \o (IF enc.cc > MaxCC THEN <<MsgCC("encoder_cc", 0, enc.cc)>> ELSE <<>>)
         \o (IF LabelTooLong(enc.label)
             THEN <<MsgLabel("encoder_label", 0, enc.label)>> ELSE <<>>)
         \o (IF enc.max < enc.min
             THEN <<MsgRange("encoder_range", 0, enc.max, enc.min)>> ELSE <<>>)
         \o (IF enc.initial < enc.min
             THEN <<MsgInitial(enc.initial, enc.min, enc.max)>> ELSE <<>>)
         \o (IF enc.push.some /\ enc.push.cc > MaxCC
             THEN <<MsgCC("push_cc", 0, enc.push.cc)>> ELSE <<>>)
         \o (IF enc.push.some /\ LabelTooLong(enc.push.label)
             THEN <<MsgLabel("push_label", 0, enc.push.label)>> ELSE <<>>)

\* config.rs:181-206 the encoder section
EncoderErrors(cfg) ==
    LET enc == cfg.encoder IN
    IF ~enc.some THEN <<>>
    ELSE (IF cfg.device = "mini6" THEN <<MsgUnsupported("mini6_encoder")>> ELSE <<>>)
         \o (IF enc.cc > MaxCC THEN <<MsgCC("encoder_cc", 0, enc.cc)>> ELSE <<>>)
         \o (IF LabelTooLong(enc.label)
             THEN <<MsgLabel("encoder_label", 0, enc.label)>> ELSE <<>>)
         \o (IF enc.max < enc.min
             THEN <<MsgRange("encoder_range", 0, enc.max, enc.min)>> ELSE <<>>)
         \o (IF enc.initial < enc.min \/ enc.initial > enc.max
             THEN <<MsgInitial(enc.initial, enc.min, enc.max)>> ELSE <<>>)
         \o (IF enc.push.some /\ enc.push.cc > MaxCC
             THEN <<MsgCC("push_cc", 0, enc.push.cc)>> ELSE <<>>)
         \o (IF enc.push.some /\ LabelTooLong(enc.push.label)
             THEN <<MsgLabel("push_label", 0, enc.push.label)>> ELSE <<>>)

\* config.rs:214-222 / 223-231 one expression slot (1 = exp1, 2 = exp2)
SlotErrors(e, slot) ==
    (IF e.cc > MaxCC THEN <<MsgCC("exp_cc", slot, e.cc)>> ELSE <<>>)
    \o (IF LabelTooLong(e.label) THEN <<MsgLabel("exp_label", slot, e.label)>> ELSE <<>>)
    \o (IF e.max < e.min THEN <<MsgRange("exp_range", slot, e.max, e.min)>> ELSE <<>>)

\* The expression section without the device test: presence on a Mini6 is
\* passed over.
ExpressionErrorsSilent(cfg) ==
    LET exp == cfg.expression IN
    IF ~exp.some THEN <<>>
    ELSE SlotErrors(exp.exp1, 1) \o SlotErrors(exp.exp2, 2)

\* config.rs:209-232 the expression section
ExpressionErrors(cfg) ==
    LET exp == cfg.expression IN
    IF ~exp.some THEN <<>>
    ELSE (IF cfg.device = "mini6" THEN <<MsgUnsupported("mini6_expression")>> ELSE <<>>)
         \o SlotErrors(exp.exp1, 1)
         \o SlotErrors(exp.exp2, 2)

\* config.rs:148-239 validate: Ok(()) iff the list is empty, else Err(errors).
validate(cfg) ==
    LET errors == CountErrors(cfg) \o ButtonErrors(cfg.buttons, 1)
                  \o EncoderErrors(cfg) \o ExpressionErrors(cfg)
    IN [ok |-> errors = <<>>, errors |-> errors]


\* --------------------------------------------------------- the configurations
\* The longest button list drawn.
MaxButtons == 11

GoodButton == ButtonConfig(Ascii(3), 10)
ButtonChoices ==
    {ButtonConfig(l, c) : l \in {Ascii(3), Ascii(9), TwoByte(5)}, c \in {10, 128}}
ButtonCounts == {0, 1, 5, Mini6Buttons, 7, Std10Buttons, MaxButtons}

\* Button lists of every length of interest whose first, second and last
\* buttons vary and whose other buttons are valid.
ButtonLists ==
    {[i \in 1..n |-> IF i = 1 THEN a ELSE IF i = 2 THEN b
                     ELSE IF i = n THEN c ELSE GoodButton] :
        n \in ButtonCounts, a \in ButtonChoices, b \in ButtonChoices,
        c \in {GoodButton, ButtonConfig(Ascii(8), 255)}}

PlainButtons(n) == [i \in 1..n |-> GoodButton]

PushChoices ==
    {NoPush, EncoderPush(Ascii(4), 127), EncoderPush(Ascii(9), 128),
     EncoderPush(TwoByte(4), 200)}
EncoderChoices ==
    {NoEncoder} \cup
    {EncoderConfig(l, c, r[1], r[2], r[3], p) :
        l \in {Ascii(8), Ascii(9), TwoByte(5)}, c \in {127, 128},
        r \in {<<0, DefaultMax, DefaultInitial>>, <<10, 5, 7>>, <<10, 20, 5>>,
               <<10, 20, 21>>, <<10, 5, 12>>, <<0, 200, 150>>},
        p \in PushChoices}
SlotChoices ==
    {ExpressionConfig(Ascii(4), 11, 0, DefaultMax),
     ExpressionConfig(Ascii(4), 128, 0, DefaultMax),
     ExpressionConfig(TwoByte(5), 11, 0, DefaultMax),
     ExpressionConfig(Ascii(4), 11, 100, 99),
     ExpressionConfig(Ascii(4), 11, 130, 255),
     ExpressionConfig(Ascii(9), 255, 1, 0)}
ExpressionChoices ==
    {NoExpression} \cup {ExpressionPedals(e1, e2) : e1 \in SlotChoices, e2 \in SlotChoices}

DeviceTypes == {"std10", "mini6"}

\* A valid configuration of a Std10 device.
GoodConfig ==
    MidiCaptainConfig("std10", PlainButtons(Std10Buttons), NoEncoder, NoExpression)
\* A configuration that breaks several rules.
BadConfig ==
    MidiCaptainConfig("mini6", PlainButtons(Std10Buttons),
        EncoderConfig(Ascii(9), 128, 10, 5, 7, NoPush), NoExpression)

ConfigSet ==
    {MidiCaptainConfig(d, b, e, x) :
        d \in DeviceTypes, b \in ButtonLists,
        e \in {NoEncoder, BadConfig.encoder},
        x \in {NoExpression,
               ExpressionPedals(ExpressionConfig(Ascii(9), 255, 1, 0),
                                ExpressionConfig(Ascii(4), 11, 0, DefaultMax))}}
    \cup
    {MidiCaptainConfig(d, b, e, x) :
        d \in DeviceTypes,
        b \in {PlainButtons(Mini6Buttons), PlainButtons(Std10Buttons),
               [PlainButtons(Std10Buttons) EXCEPT ![3] = ButtonConfig(Ascii(9), 128)]},
        e \in EncoderChoices, x \in ExpressionChoices}

\* ------------------------------------------------------ serde: the JSON form
\* A JSON object is the function from its keys to their values: a key the
\* text omits is outside its DOMAIN.  A value that may be null is a sequence,
\* <<>> for null and <<v>> for the value v.
JsonNull == <<>>

\* An object without some of its keys.
Without(obj, keys) == [k \in DOMAIN obj \ keys |-> obj[k]]

\* #[serde(default)] / #[serde(default = "...")]: a missing key takes the
\* default.
Field(obj, key, default) == IF key \in DOMAIN obj THEN obj[key] ELSE default

\* An Option<T> field: a missing key reads as null.
OptionField(obj, key) == Field(obj, key, JsonNull)

\* The off_mode test that holds of Off instead of Dim.
is_default_off_mode_off(mode) == mode = "off"

\* config.rs:52-54 is_default_off_mode
is_default_off_mode(mode) == mode = "dim"

\* config.rs:41-50 Serialize for ButtonConfig: off_mode is skipped when
\* is_default_off_mode holds of it.
serialize_ButtonConfig(b) ==
    Without([label |-> b.label, cc |-> b.cc, color |-> b.color, mode |-> b.mode,
             off_mode |-> b.off_mode],
            IF is_default_off_mode(b.off_mode) THEN {"off_mode"} ELSE {})

\* config.rs:41-50 Deserialize for ButtonConfig: mode and off_mode default.
deserialize_ButtonConfig(j) ==
    [label |-> j.label, cc |-> j.cc, color |-> j.color,
     mode |-> Field(j, "mode", "toggle"),
     off_mode |-> Field(j, "off_mode", "dim")]

\* config.rs:57-64 EncoderPush
serialize_EncoderPush(p) ==
    [enabled |-> p.enabled, cc |-> p.cc, label |-> p.label, mode |-> p.mode]
deserialize_EncoderPush(j) ==
    [some |-> TRUE, enabled |-> j.enabled, cc |-> j.cc, label |-> j.label,
     mode |-> Field(j, "mode", "toggle")]

\* config.rs:67-80 EncoderConfig: steps and push are written as null when
\* None; min, max and initial default when missing.
serialize_EncoderConfig(e) ==
    [enabled |-> e.enabled, cc |-> e.cc, label |-> e.label, min |-> e.min,
     max |-> e.max, initial |-> e.initial, steps |-> e.steps,
     push |-> IF e.push.some THEN <<serialize_EncoderPush(e.push)>> ELSE JsonNull]
deserialize_EncoderConfig(j) ==
    LET push == OptionField(j, "push") IN
    [some |-> TRUE, enabled |-> j.enabled, cc |-> j.cc, label |-> j.label,
     min |-> Field(j, "min", 0),
     max |-> Field(j, "max", DefaultMax),
     initial |-> Field(j, "initial", DefaultInitial),
     steps |-> OptionField(j, "steps"),
     push |-> IF Len(push) = 0 THEN NoPush ELSE deserialize_EncoderPush(push[1])]

\* config.rs:99-112 ExpressionConfig
serialize_ExpressionConfig(x) ==
    [enabled |-> x.enabled, cc |-> x.cc, label |-> x.label, min |-> x.min,
     max |-> x.max, polarity |-> x.polarity, threshold |-> x.threshold]
deserialize_ExpressionConfig(j) ==
    [enabled |-> j.enabled, cc |-> j.cc, label |-> j.label,
     min |-> Field(j, "min", 0),
     max |-> Field(j, "max", DefaultMax),
     polarity |-> Field(j, "polarity", "normal"),
     threshold |-> Field(j, "threshold", DefaultThreshold)]

\* config.rs:119-123 ExpressionPedals
serialize_ExpressionPedals(x) ==
    [exp1 |-> serialize_ExpressionConfig(x.exp1),
     exp2 |-> serialize_ExpressionConfig(x.exp2)]
deserialize_ExpressionPedals(j) ==
    [some |-> TRUE, exp1 |-> deserialize_ExpressionConfig(j.exp1),
     exp2 |-> deserialize_ExpressionConfig(j.exp2)]

\* config.rs:135-144 Serialize for MidiCaptainConfig, as called at
\* commands.rs:227 and 258: encoder and expression are skipped when None.
to_string_pretty(cfg) ==
    Without([device |-> cfg.device,
             buttons |-> [i \in 1..Len(cfg.buttons) |->
                             serialize_ButtonConfig(cfg.buttons[i])],
             encoder |-> <<serialize_EncoderConfig(cfg.encoder)>>,
             expression |-> <<serialize_ExpressionPedals(cfg.expression)>>],
            (IF cfg.encoder.some THEN {} ELSE {"encoder"})
                \cup (IF cfg.expression.some THEN {} ELSE {"expression"}))

\* The keys without a default, which a text must hold to deserialize.
HasRequired(j, keys) == keys \subseteq DOMAIN j
RequiredOfSlot == {"enabled", "cc", "label"}
WellFormed(j) ==
    /\ HasRequired(j, {"buttons"})
    /\ \A i \in DOMAIN j.buttons : HasRequired(j.buttons[i], {"label", "cc", "color"})
    /\ \A e \in {OptionField(j, "encoder")} : Len(e) = 0 \/
          /\ HasRequired(e[1], RequiredOfSlot)
          /\ \A p \in {OptionField(e[1], "push")} :
                Len(p) = 0 \/ HasRequired(p[1], RequiredOfSlot)
    /\ \A x \in {OptionField(j, "expression")} : Len(x) = 0 \/
          /\ HasRequired(x[1], {"exp1", "exp2"})
          /\ HasRequired(x[1].exp1, RequiredOfSlot)
          /\ HasRequired(x[1].exp2, RequiredOfSlot)

\* config.rs:135-144 Deserialize for MidiCaptainConfig: device defaults, a
\* missing or null encoder / expression is None.
deserialize_MidiCaptainConfig(j) ==
    LET enc == OptionField(j, "encoder")
        exp == OptionField(j, "expression")
    IN MidiCaptainConfig(
           Field(j, "device", "std10"),
           [i \in 1..Len(j.buttons) |-> deserialize_ButtonConfig(j.buttons[i])],
           IF Len(enc) = 0 THEN NoEncoder ELSE deserialize_EncoderConfig(enc[1]),
           IF Len(exp) = 0 THEN NoExpression ELSE deserialize_ExpressionPedals(exp[1]))

\* serde_json::from_str::<MidiCaptainConfig>, as called at commands.rs:194,
\* 247 and 270.
from_str(j) ==
    IF WellFormed(j) THEN [parses |-> TRUE, config |-> deserialize_MidiCaptainConfig(j)]
    ELSE [parses |-> FALSE, config |-> GoodConfig]

\* ----------------------------------------------------------- validate_config
\* A JSON text: either it deserializes into a MidiCaptainConfig or
\* serde_json::from_str fails on it.
JsonOf(cfg) == [parses |-> TRUE, config |-> cfg]
MalformedJson == [parses |-> FALSE, config |-> GoodConfig]
JsonTexts == {JsonOf(cfg) : cfg \in ConfigSet} \cup {MalformedJson}

\* commands.rs:71-75 ConfigError, and Ok(()) as the record with ok = TRUE.
OkResult == [ok |-> TRUE, message |-> "", details |-> <<>>, some |-> FALSE]
ConfigError(message) ==
    [ok |-> FALSE, message |-> message, details |-> <<>>, some |-> FALSE]
\* commands.rs:86-93 From<serde_json::Error>
JsonParseError == ConfigError("JSON parse error")
\* commands.rs:220-225 `message: "Validation failed", details: Some(errors)`
ValidationFailed(errors) ==
    [ok |-> FALSE, message |-> "Validation failed", details |-> errors, some |-> TRUE]

\* commands.rs:269-280 validate_config, as a function of its argument.
ValidateConfigResult(json) ==
    IF ~json.parses THEN JsonParseError
    ELSE LET r == validate(json.config)
         IN IF r.ok THEN OkResult ELSE ValidationFailed(r.errors)

NotReturned == [done |-> FALSE, result |-> OkResult]

\* The JSON texts of the round trip: every document spells out, omits or
\* nulls the fields that have defaults.
ButtonDocs ==
    {Without([label |-> l, cc |-> 20, color |-> "green", mode |-> m, off_mode |-> o], ks) :
        l \in {Ascii(3)}, m \in {"toggle", "momentary"}, o \in {"dim", "off"},
        ks \in SUBSET {"mode", "off_mode"}}
SecondButtonDocs ==
    {serialize_ButtonConfig(GoodButton),
     [label |-> TwoByte(4), cc |-> 127, color |-> "red", mode |-> "momentary",
      off_mode |-> "off"]}
ButtonListDocs ==
    {[i \in 1..n |-> IF i = 1 THEN a ELSE IF i = 2 THEN b
                     ELSE serialize_ButtonConfig(GoodButton)] :
        n \in {Mini6Buttons, Std10Buttons}, a \in ButtonDocs, b \in SecondButtonDocs}

FullEncoderDoc(steps, push) ==
    serialize_EncoderConfig(
        [EncoderConfig(Ascii(3), 11, 10, 20, 15, push) EXCEPT !.steps = steps])
EncoderDocs ==
    {Without(FullEncoderDoc(st, p), ks) :
        st \in {<<>>, <<4>>}, p \in {NoPush, EncoderPush(Ascii(4), 14)},
        ks \in {{}, {"min"}, {"steps", "push"},
                {"min", "max", "initial", "steps", "push"}}}
    \cup {[FullEncoderDoc(<<>>, EncoderPush(Ascii(4), 14)) EXCEPT
              !.push = <<Without(@[1], {"mode"})>>]}

FullSlotDoc(polarity) ==
    serialize_ExpressionConfig(
        [ExpressionConfig(Ascii(4), 12, 5, 100) EXCEPT !.polarity = polarity])
ExpressionDocs ==
    {[exp1 |-> FullSlotDoc("inverted"), exp2 |-> FullSlotDoc("normal")],
     [exp1 |-> Without(FullSlotDoc("normal"), {"min", "max", "polarity", "threshold"}),
      exp2 |-> Without(FullSlotDoc("inverted"), {"polarity"})],
     [exp1 |-> Without(FullSlotDoc("normal"), {"threshold", "max"}),
      exp2 |-> FullSlotDoc("normal")]}

ConfigDocs ==
    {Without([device |-> d, buttons |-> b, encoder |-> e, expression |-> x], ks) :
        d \in DeviceTypes, b \in ButtonListDocs,
        e \in {JsonNull} \cup {<<doc>> : doc \in EncoderDocs},
        x \in {JsonNull} \cup {<<doc>> : doc \in ExpressionDocs},
        ks \in SUBSET {"device", "encoder", "expression"}}
    \cup {[device |-> "std10"]}

\* The stages of a text: as received, deserialized, serialized again, and
\* read back.
RoundTrip(pc, text, config, file, back) ==
    [pc |-> pc, text |-> text, config |-> config, file |-> file, back |-> back]
NoRoundTrip == RoundTrip("none", JsonNull, MalformedJson, JsonNull, MalformedJson)


ValidatorIdle ==
    /\ vin = MalformedJson
    /\ vout = NotReturned
    /\ rt = NoRoundTrip

\* commands.rs:268-280 the validate_config command.
validate_config ==
    /\ ~vout.done
    /\ vout' = [done |-> TRUE, result |-> ValidateConfigResult(vin)]
    /\ UNCHANGED <<vin, rt, watcherVars, writerVars>>

\* commands.rs:247 write_config_raw: serde_json::from_str(&json)?
RawParse ==
    /\ rt.pc = "text"
    /\ LET parsed == from_str(rt.text[1])
       IN rt' = [rt EXCEPT !.pc = IF parsed.parses THEN "parsed" ELSE "failed",
                           !.config = parsed]
    /\ UNCHANGED <<vin, vout, watcherVars, writerVars>>

\* commands.rs:250-259 write_config_raw: validate, then to_string_pretty and
\* fs::write (also 220-228 of write_config).
RawSerialize ==
    /\ rt.pc = "parsed"
    /\ rt' = IF validate(rt.config.config).ok
             THEN [rt EXCEPT !.pc = "written",
                             !.file = <<to_string_pretty(rt.config.config)>>]
             ELSE [rt EXCEPT !.pc = "failed"]
    /\ UNCHANGED <<vin, vout, watcherVars, writerVars>>

\* commands.rs:193-195 read_config: from_str of the file's contents.
ReadBack ==
    /\ rt.pc = "written"
    /\ rt' = [rt EXCEPT !.pc = "read", !.back = from_str(rt.file[1])]
    /\ UNCHANGED <<vin, vout, watcherVars, writerVars>>



\* ================================================ Part 3: the config commands
\* commands.rs, the cfg(unix) / cfg(not(target_os = "windows")) variants.
\*
\* A path is the sequence of its components below "/"; <<>> is the root.
Parent(p) == SubSeq(p, 1, Len(p) - 1)
Last(p) == p[Len(p)]
IsPrefix(a, b) == Len(a) <= Len(b) /\ SubSeq(b, 1, Len(a)) = a

\* The removable volumes of the host: two device volumes that come and go,
\* and two volumes of other media that stay mounted.
MacDevice == <<"Volumes", "CIRCUITPY">>
LinuxDevice == <<"media", "u", "midicaptain">>
MacOther == <<"Volumes", "Other">>
LinuxOther == <<"media", "u", "USB">>
DeviceMounts == {MacDevice, LinuxDevice}
OtherMounts == {MacOther, LinuxOther}
MountPoints == DeviceMounts \cup OtherMounts

\* A device volume is "mounted"; or "stale": unmounted, its directory left on
\* the host's root filesystem with a config.json in it; or "absent": unmounted
\* and its directory gone.
MountStates == {"mounted", "stale", "absent"}

\* The one symbolic link of the host, and what it points to.
SymLink == <<"home", "u", "link">>
SymLinkTarget == MacDevice

\* Directories and files of the host when the device volumes are in state m.
Dirs(m) ==
    {<<>>, <<"Volumes">>, MacOther, MacOther \o <<"CIRCUITPY">>,
     <<"media">>, <<"media", "u">>, LinuxOther,
     <<"home">>, <<"home", "u">>, <<"home", "u", "CIRCUITPY">>}
    \cup {d \in DeviceMounts : m[d] # "absent"}
Files(m) ==
    {MacOther \o <<"config.json">>, MacOther \o <<"CIRCUITPY", "config.json">>,
     LinuxOther \o <<"config.json">>, LinuxOther \o <<"MIDICAPTAIN">>,
     <<"home", "u", "CIRCUITPY", "config.json">>}
    \cup {d \o <<"config.json">> : d \in {d2 \in DeviceMounts : m[d2] # "absent"}}

NoPath == <<"?">>

\* Path::canonicalize (realpath): components are resolved left to right, ".."
\* steps to the parent of the directory reached, a symbolic link is replaced
\* by its target, and every component must exist.  NoPath stands for Err.
RECURSIVE Resolve(_, _, _)
Resolve(at, rest, m) ==
    IF rest = <<>> THEN at
    ELSE IF at \notin Dirs(m) THEN NoPath
    ELSE LET c == Head(rest)
             p == at \o <<c>>
         IN IF c = ".." THEN Resolve(Parent(at), Tail(rest), m)
            ELSE IF p = SymLink THEN Resolve(SymLinkTarget, Tail(rest), m)
            ELSE IF p \in Dirs(m) \cup Files(m) THEN Resolve(p, Tail(rest), m)
            ELSE NoPath

canonicalize(path, m) ==
    LET r == Resolve(<<>>, path, m)
    IN IF r \in Dirs(m) \cup Files(m) THEN r ELSE NoPath

\* st_dev of an existing canonical path: the volume mounted at the longest
\* mount point above it, or the root filesystem.
RootDev == <<>>
Dev(canonical, m) ==
    LET above == {mp \in MountPoints :
                     /\ IsPrefix(mp, canonical)
                     /\ (mp \in DeviceMounts => m[mp] = "mounted")}
    IN IF above = {} THEN RootDev
       ELSE CHOOSE mp \in above : \A o \in above : Len(o) <= Len(mp)

\* commands.rs:62 / 159-161 the test on parent.to_string_lossy():
\* == "/Volumes", or starts_with("/media/"), or starts_with("/run/media/").
IsVolumesParent(parent) ==
    \/ parent = <<"Volumes">>
    \/ (Len(parent) >= 2 /\ parent[1] = "media")
    \/ (Len(parent) >= 3 /\ parent[1] = "run" /\ parent[2] = "media")

\* Path::ancestors: the path, its parent, ... down to the root, purely by text.
Ancestors(path) == [k \in 1..(Len(path) + 1) |-> SubSeq(path, 1, Len(path) + 1 - k)]

\* The first ancestor that has a parent passing the test; NoPath when none.
FirstVolumeAncestor(path) ==
    LET anc == Ancestors(path)
        hits == {k \in 1..Len(anc) : anc[k] # <<>> /\ IsVolumesParent(Parent(anc[k]))}
    IN IF hits = {} THEN NoPath
       ELSE anc[CHOOSE k \in hits : \A j \in hits : k <= j]

NoName == "?"
\* Path::file_name: None when the path ends in "..".
FileName(p) == IF p = <<>> \/ Last(p) = ".." THEN NoName ELSE Last(p)

\* commands.rs:56-68 get_path_volume_name
get_path_volume_name(path) ==
    LET a == FirstVolumeAncestor(path)
    IN IF a = NoPath THEN NoName ELSE FileName(a)

\* commands.rs:152-167 get_volume_path
get_volume_path(path) == FirstVolumeAncestor(path)

\* commands.rs:97-120 validate_device_path
PathUnresolvable == ConfigError("Input watch path is neither a file nor a directory")
NoVolumeName == ConfigError("Could not determine volume name for path")
NotADeviceVolume == ConfigError("Path must be on a MIDI Captain device")
validate_device_path(path, m) ==
    LET canonical == canonicalize(path, m)
        volume_name == get_path_volume_name(canonical)
    IN IF canonical = NoPath THEN PathUnresolvable
       ELSE IF volume_name = NoName THEN NoVolumeName
       ELSE IF ~IsDeviceName(volume_name) THEN NotADeviceVolume
       ELSE OkResult

\* commands.rs:124-134 is_volume_mounted: metadata() follows links and "..";
\* false when it fails or when st_dev is that of "/".
is_volume_mounted(volume_path, m) ==
    LET c == canonicalize(volume_path, m)
    IN c # NoPath /\ Dev(c, m) # RootDev

\* commands.rs:170-180 verify_device_connected
DeviceDisconnected == ConfigError("Device was disconnected")
verify_device_connected(path, m) ==
    LET volume_path == get_volume_path(path)
    IN IF volume_path # NoPath /\ ~is_volume_mounted(volume_path, m)
       THEN DeviceDisconnected
       ELSE OkResult

\* std::fs::write (commands.rs:228, 259): the file the open(2) with
\* O_CREAT | O_TRUNC reaches, or NoPath when the open fails.
WriteTarget(path, m) ==
    LET c == canonicalize(path, m)
        dir == canonicalize(Parent(path), m)
    IN IF c \in Files(m) THEN c
       ELSE IF c = NoPath /\ path # <<>> /\ dir \in Dirs(m) /\ FileName(path) # NoName
            THEN dir \o <<Last(path)>>
       ELSE NoPath

\* commands.rs:77-84 From<std::io::Error>
IoError == ConfigError("io error")

\* commands.rs:183-187 sync_file: true when the file was opened and sync_all
\* returned Ok; the function itself returns nothing.
SyncOutcomes == {"ok", "eio"}
sync_file(path, m, io) == canonicalize(path, m) # NoPath /\ io = "ok"

\* ------------------------------------------------------------- scan_devices
\* device.rs:18-44 get_volumes_path: /Volumes on macos; on linux /media/$USER
\* when it exists, else /run/media/$USER when it exists, else /media.
UnixTargets == {"macos", "linux"}
get_volumes_path(target_os, m) ==
    IF target_os = "macos" THEN <<"Volumes">>
    ELSE IF <<"media", "u">> \in Dirs(m) THEN <<"media", "u">>
    ELSE IF <<"run", "media", "u">> \in Dirs(m) THEN <<"run", "media", "u">>
    ELSE <<"media">>

\* std::fs::read_dir: the entries of a directory.
read_dir(dir, m) ==
    {p \in Dirs(m) \cup Files(m) : Len(p) = Len(dir) + 1 /\ IsPrefix(dir, p)}

\* device.rs:120-136 check_volume on a path of this filesystem
\* (get_volume_name is the cfg(not(windows)) variant, device.rs:114-117).
check_volume_at(path, m) ==
    IF IsDeviceName(FileName(path))
    THEN [name |-> FileName(path), path |-> path,
          config_path |-> path \o <<"config.json">>,
          has_config |-> canonicalize(path \o <<"config.json">>, m) # NoPath,
          some |-> TRUE]
    ELSE [name |-> "", path |-> path, config_path |-> <<>>, has_config |-> FALSE,
          some |-> FALSE]

\* device.rs:140-162 scan_devices, cfg(not(windows)): the devices found, as a
\* set (the order is that of read_dir).
scan_devices(target_os, m) ==
    {dev \in {check_volume_at(entry, m) :
                 entry \in read_dir(get_volumes_path(target_os, m), m)} : dev.some}

\* ----------------------------------------------------- write_config[_raw]
\* The steps of commands.rs:211-234 and 238-265, in the order of the source.
\* The mutated order validates the payload before the mount check.
StepAfterValidateFirst(step) ==
    CASE step = "auth" -> "validate"
      [] step = "validate" -> "mount"
      [] step = "mount" -> "write"
      [] step = "write" -> "sync"
      [] step = "sync" -> "done"

StepAfter(step) ==
    CASE step = "auth" -> "mount"
      [] step = "mount" -> "validate"
      [] step = "validate" -> "write"
      [] step = "write" -> "sync"
      [] step = "sync" -> "done"

\* The paths a caller supplies.
RawPaths ==
    {MacDevice \o <<"config.json">>,
     MacDevice,
     MacDevice \o <<"missing.json">>,
     MacDevice \o <<"..", "Other", "config.json">>,
     MacOther \o <<"config.json">>,
     MacOther \o <<"CIRCUITPY", "config.json">>,
     MacOther \o <<"..", "CIRCUITPY", "config.json">>,
     SymLink \o <<"config.json">>,
     <<"home", "u", "CIRCUITPY", "config.json">>,
     LinuxDevice \o <<"config.json">>,
     LinuxOther \o <<"config.json">>,
     LinuxOther \o <<"MIDICAPTAIN">>}

\* The payloads: write_config receives a deserialized MidiCaptainConfig,
\* write_config_raw a text that may fail to parse.
WriteInputs ==
    {<<"write_config", JsonOf(GoodConfig)>>, <<"write_config", JsonOf(BadConfig)>>,
     <<"write_config_raw", JsonOf(GoodConfig)>>,
     <<"write_config_raw", JsonOf(BadConfig)>>,
     <<"write_config_raw", MalformedJson>>}

\* What a step found, and the state of the volumes when it ran.
Observation(step, ok, m) == [step |-> step, ok |-> ok, mnt |-> m]

IdleWrite ==
    [pc |-> "idle", op |-> "none", path |-> <<>>, json |-> MalformedJson,
     result |-> OkResult, trace |-> <<>>, steady |-> TRUE]

WriterIdle ==
    /\ mnt = [d \in DeviceMounts |-> "mounted"]
    /\ wcall = IdleWrite
    /\ written = <<>>
    /\ fsLeft = 0

\* The command is invoked.
BeginWrite(op, path, json) ==
    /\ wcall.pc = "idle"
    /\ wcall' = [IdleWrite EXCEPT !.pc = "auth", !.op = op, !.path = path,
                                  !.json = json]
    /\ written' = <<>>
    /\ UNCHANGED <<mnt, fsLeft, watcherVars, validatorVars>>

\* A step ends: the next step on success, the early return on failure.
Advance(step, r) ==
    [wcall EXCEPT !.trace = Append(@, Observation(step, r.ok, mnt)),
                  !.pc = IF r.ok THEN StepAfter(step) ELSE "done",
                  !.result = r]

\* commands.rs:212 / 239 `validate_device_path(&path)?`
StepAuthorize ==
    /\ wcall.pc = "auth"
    /\ wcall' = Advance("auth", validate_device_path(wcall.path, mnt))
    /\ UNCHANGED <<mnt, written, fsLeft, watcherVars, validatorVars>>

\* commands.rs:217 / 244 `verify_device_connected(path_obj)?`
StepMountCheck ==
    /\ wcall.pc = "mount"
    /\ wcall' = Advance("mount", verify_device_connected(wcall.path, mnt))
    /\ UNCHANGED <<mnt, written, fsLeft, watcherVars, validatorVars>>

\* commands.rs:220-225 config.validate(); for write_config_raw commands.rs:247
\* `serde_json::from_str(&json)?` comes first.
StepValidate ==
    /\ wcall.pc = "validate"
    /\ wcall' = Advance("validate", ValidateConfigResult(wcall.json))
    /\ UNCHANGED <<mnt, written, fsLeft, watcherVars, validatorVars>>

\* commands.rs:227-228 / 258-259 `fs::write(&path, &json)?`
StepWrite ==
    /\ wcall.pc = "write"
    /\ LET target == WriteTarget(wcall.path, mnt)
       IN /\ wcall' = Advance("write", IF target = NoPath THEN IoError ELSE OkResult)
          /\ written' = IF target = NoPath THEN written
                        ELSE Append(written, [target |-> target, dev |-> Dev(target, mnt)])
    /\ UNCHANGED <<mnt, fsLeft, watcherVars, validatorVars>>

\* commands.rs:231-233 / 262-264 `sync_file(path_obj); Ok(())`
StepSync(io) ==
    /\ wcall.pc = "sync"
    /\ wcall' = [wcall EXCEPT
                    !.trace = Append(@, Observation("sync",
                                  sync_file(wcall.path, mnt, io), mnt)),
                    !.pc = StepAfter("sync"),
                    !.result = OkResult]
    /\ UNCHANGED <<mnt, written, fsLeft, watcherVars, validatorVars>>

\* The caller has the result; the next command may come.
ReturnWrite ==
    /\ wcall.pc = "done"
    /\ wcall' = IdleWrite
    /\ UNCHANGED <<mnt, written, fsLeft, watcherVars, validatorVars>>

\* The device is unplugged or ejected: its directory stays behind or goes.
FsUnmount(d, to) ==
    /\ fsLeft > 0
    /\ mnt[d] = "mounted"
    /\ to \in {"stale", "absent"}
    /\ mnt' = [mnt EXCEPT ![d] = to]
    /\ fsLeft' = fsLeft - 1
    /\ wcall' = [wcall EXCEPT !.steady = FALSE]
    /\ UNCHANGED <<written, watcherVars, validatorVars>>

\* The device is plugged in and mounted over its directory.
FsMount(d) ==
    /\ fsLeft > 0
    /\ mnt[d] # "mounted"
    /\ mnt' = [mnt EXCEPT ![d] = "mounted"]
    /\ fsLeft' = fsLeft - 1
    /\ wcall' = [wcall EXCEPT !.steady = FALSE]
    /\ UNCHANGED <<written, watcherVars, validatorVars>>

\* ------------------------------------------------------------- specification
Next ==
    \/ \E c \in Callers : start_device_watcher(c)
    \/ \E c \in Callers : StoreShutdownTx(c)
    \/ \E c \in Callers, o \in SetupOutcomes : SetupWatcher(c, o)
    \/ \E c \in Callers : SpawnThread(c)
    \/ \E c \in Callers : stop_device_watcher(c)
    \/ \E ch \in Chans : ThreadInitialScan(ch)
    \/ \E ch \in Chans : ThreadCheckShutdown(ch)
    \/ \E ch \in Chans : ThreadRecvEvent(ch)
    \/ \E ch \in Chans : ThreadPoll(ch)
    \/ \E ch \in Chans : ThreadExit(ch)
    \/ \E d \in Drives, n \in VolNames, h \in BOOLEAN : EnvMount(d, n, h)
    \/ \E d \in Drives : EnvUnmount(d)
    \/ \E d \in Drives : EnvModify(d)

Init == InitWatcher /\ WriterIdle /\ ValidatorIdle

Spec == Init /\ [][Next]_vars

\* The polling build, started on a host that may already hold volumes.
InitPoll ==
    /\ platform = "windows"
    /\ WATCHER_STARTED = FALSE
    /\ SHUTDOWN_TX = 0
    /\ nchan = 0
    /\ msgs = [ch \in Chans |-> 0]
    /\ thr = [ch \in Chans |-> "none"]
    /\ known_devices = [ch \in Chans |-> {}]
    /\ rx = [ch \in Chans |-> <<>>]
    /\ watching = {}
    /\ emitted = <<>>
    /\ call = [c \in Callers |-> IdleCall]
    /\ vols \in [Drives -> VolumeStates]
    /\ envLeft = MaxEnv
    /\ stopReq = [ch \in Chans |-> FALSE]
    /\ afterStop = [ch \in Chans |-> 0]
    /\ lastPoll = NoPoll
    /\ WriterIdle
    /\ ValidatorIdle

\* Commands of this run are issued one at a time, by the first caller.
FirstCaller == CHOOSE c \in Callers : \A c2 \in Callers : c <= c2

NextPoll ==
    \/ start_device_watcher(FirstCaller)
    \/ StoreShutdownTx(FirstCaller)
    \/ SpawnThread(FirstCaller)
    \/ stop_device_watcher(FirstCaller)
    \/ \E ch \in Chans : ThreadInitialScan(ch)
    \/ \E ch \in Chans : ThreadCheckShutdown(ch)
    \/ \E ch \in Chans : ThreadPoll(ch)
    \/ \E ch \in Chans : ThreadExit(ch)
    \/ \E d \in Drives, n \in VolNames, h \in BOOLEAN : EnvMount(d, n, h)
    \/ \E d \in Drives : EnvUnmount(d)

PollSpec == InitPoll /\ [][NextPoll]_vars

\* The operating system schedules every live thread: each thread step that
\* stays enabled is eventually taken.  Callers and the environment are free.
FairSpec == Spec /\ \A ch \in Chans : WF_vars(ThreadStep(ch))

\* The paths one notify event carries at most.
MaxPaths == 2

\* notify::Event: a kind and the affected paths (entries of the volumes
\* directory, by name).
Events ==
    {[kind |-> k, paths |-> ps] :
        k \in {"Create", "Remove", "Modify"},
        ps \in UNION {[1..n -> VolNames] : n \in 1..MaxPaths}}

\* The event thread of a unix build at its recv_timeout, one event queued,
\* on a host with any volumes.
InitEvent ==
    /\ platform = "unix"
    /\ WATCHER_STARTED = TRUE
    /\ SHUTDOWN_TX = 1
    /\ nchan = 1
    /\ msgs = [ch \in Chans |-> 0]
    /\ thr = [ch \in Chans |-> IF ch = 1 THEN "body" ELSE "none"]
    /\ known_devices = [ch \in Chans |-> {}]
    /\ \E e \in Events : rx = [ch \in Chans |-> IF ch = 1 THEN <<e>> ELSE <<>>]
    /\ watching = {1}
    /\ emitted = <<>>
    /\ call = [c \in Callers |->
                 IF c = FirstCaller
                 THEN [pc |-> "idle", ch |-> 1, ret |-> "Ok", op |-> "start",
                       found |-> "stopped", setup |-> "ok"]
                 ELSE IdleCall]
    /\ vols \in {v \in [Drives -> VolumeStates] : NamesUnique(v)}
    /\ envLeft = 0
    /\ stopReq = [ch \in Chans |-> FALSE]
    /\ afterStop = [ch \in Chans |-> 0]
    /\ lastPoll = NoPoll
    /\ WriterIdle
    /\ ValidatorIdle

NextEvent ==
    \/ \E ch \in Chans : ThreadCheckShutdown(ch)
    \/ \E ch \in Chans : ThreadRecvEvent(ch)

EventSpec == InitEvent /\ [][NextEvent]_vars

\* A watcher of either build at the moment start_device_watcher has returned
\* Ok: the thread is spawned, the polling thread has yet to make its initial
\* scan, the event thread's notify watcher is subscribed.  lastPoll holds the
\* volumes of that moment.
InitStarted ==
    /\ platform \in {"unix", "windows"}
    /\ vols \in {v \in [Drives -> VolumeStates] : NamesUnique(v)}
    /\ WATCHER_STARTED = TRUE
    /\ SHUTDOWN_TX = 1
    /\ nchan = 1
    /\ msgs = [ch \in Chans |-> 0]
    /\ thr = [ch \in Chans |-> IF ch # 1 THEN "none"
                               ELSE IF platform = "unix" THEN "top" ELSE "init"]
    /\ known_devices = [ch \in Chans |-> {}]
    /\ rx = [ch \in Chans |-> <<>>]
    /\ watching = IF platform = "unix" THEN {1} ELSE {}
    /\ emitted = <<>>
    /\ call = [c \in Callers |->
                 IF c = FirstCaller
                 THEN [pc |-> "idle", ch |-> 1, ret |-> "Ok", op |-> "start",
                       found |-> "stopped", setup |-> "ok"]
                 ELSE IdleCall]
    /\ envLeft = MaxEnv
    /\ stopReq = [ch \in Chans |-> FALSE]
    /\ afterStop = [ch \in Chans |-> 0]
    /\ lastPoll = [NoPoll EXCEPT !.scan =
                      IF platform = "windows" THEN scan_windows_drives ELSE <<>>]
    /\ WriterIdle
    /\ ValidatorIdle

NextStarted ==
    \/ \E ch \in Chans : ThreadInitialScan(ch)
    \/ \E ch \in Chans : ThreadCheckShutdown(ch)
    \/ \E ch \in Chans : ThreadPoll(ch)
    \/ \E ch \in Chans : ThreadRecvEvent(ch)
    \/ \E d \in Drives, n \in VolNames, h \in BOOLEAN : EnvMount(d, n, h)
    \/ \E d \in Drives : EnvUnmount(d)

StartedSpec == InitStarted /\ [][NextStarted]_vars

\* The validator applied to every text of JsonTexts.
InitValidate ==
    /\ platform = "unix"
    /\ vols = NoVolumes
    /\ WatcherStopped
    /\ WriterIdle
    /\ vin \in JsonTexts
    /\ vout = NotReturned
    /\ rt = NoRoundTrip

NextValidate == validate_config

ValidateSpec == InitValidate /\ [][NextValidate]_vars

\* A text written through write_config_raw and read back by read_config.
InitRoundTrip ==
    /\ platform = "unix"
    /\ vols = NoVolumes
    /\ WatcherStopped
    /\ WriterIdle
    /\ vin = MalformedJson
    /\ vout = NotReturned
    /\ \E doc \in ConfigDocs :
          rt = RoundTrip("text", <<doc>>, MalformedJson, JsonNull, MalformedJson)

NextRoundTrip == RawParse \/ RawSerialize \/ ReadBack

RoundTripSpec == InitRoundTrip /\ [][NextRoundTrip]_vars

\* Filesystem occurrences in one run of the write commands.
MaxFsEvents == 2

\* The write commands on a host whose device volumes come and go.
InitWrite ==
    /\ platform = "unix"
    /\ vols = NoVolumes
    /\ WatcherStopped
    /\ ValidatorIdle
    /\ mnt \in [DeviceMounts -> MountStates]
    /\ wcall = IdleWrite
    /\ written = <<>>
    /\ fsLeft = MaxFsEvents

NextWrite ==
    \/ \E in \in WriteInputs, path \in RawPaths : BeginWrite(in[1], path, in[2])
    \/ StepAuthorize
    \/ StepMountCheck
    \/ StepValidate
    \/ StepWrite
    \/ \E io \in SyncOutcomes : StepSync(io)
    \/ ReturnWrite
    \/ \E d \in DeviceMounts, to \in MountStates : FsUnmount(d, to)
    \/ \E d \in DeviceMounts : FsMount(d)

WriteSpec == InitWrite /\ [][NextWrite]_vars


\* ===================================================================== claims
\* C1: in every reachable state at most one watcher thread exists, so at most
\* one background loop is active, whatever the interleaving of start calls,
\* stop calls and thread steps.
C1_AtMostOneLoop == Cardinality(LiveThreads) <= 1

\* C1 witness: a watcher was stopped and a second one is looping after a
\* restart.
C1_Witness == \E a, b \in Chans : thr[a] = "dead" /\ Looping(b)

\* C2 (as claimed): whenever no watcher thread exists and no start call is on
\* its way to spawning one, the flag is false, so that a start call starts a
\* new loop.  The code leaves the flag set when the setup fails.
C2_FlagFalseWithoutThread ==
    (LiveThreads = {} /\ ~StartInProgress) => ~WATCHER_STARTED

\* C3: once stop_device_watcher was called while thread ch was looping, the
\* thread ends and the flag is false again, having begun at most one further
\* loop body (one event handled or one poll cycle) after the call.
C3_StopTerminates ==
    \A ch \in Chans :
        (stopReq[ch] /\ thr[ch] # "dead")
            ~> (thr[ch] = "dead" /\ ~WATCHER_STARTED /\ afterStop[ch] <= 1)

\* C3 witness: a stop call made while the thread was looping, after which the
\* thread finished the body it was in and ended.
C3_Witness == \E ch \in Chans : stopReq[ch] /\ thr[ch] = "dead" /\ afterStop[ch] = 1

\* C10: a start call that finds the flag set returns Ok and leaves the flag,
\* the stored sender, the channels and the threads as they were; and a looping
\* thread stays reachable by stop: its sender is the stored one, or a stop
\* message for it is already buffered.
C10_StartWhileRunningIsNoop ==
    /\ [][\A c \in Callers :
            (start_device_watcher(c) /\ WATCHER_STARTED) =>
                /\ call'[c].ret = "Ok"
                /\ call'[c].pc = "idle"
                /\ UNCHANGED <<WATCHER_STARTED, SHUTDOWN_TX, nchan, msgs, thr,
                               watching>>]_vars
    /\ [](\A ch \in Chans : Looping(ch) => (SHUTDOWN_TX = ch \/ msgs[ch] > 0))

\* C10 witness: a start call returned Ok without creating a channel while a
\* thread was looping, and the stored sender is still that thread's.
C10_Witness ==
    \E c \in Callers, ch \in Chans :
        /\ call[c].op = "start" /\ call[c].ret = "Ok" /\ call[c].ch = 0
        /\ Looping(ch) /\ SHUTDOWN_TX = ch


\* Number of notifications of kind ev for name n in the emission list out.
CountEmitted(out, ev, n) ==
    Cardinality({i \in DOMAIN out : out[i].ev = ev /\ out[i].name = n})

\* The scan result devs with its entries rearranged by p.
Rearranged(devs, p) == [i \in 1..Len(devs) |-> devs[p[i]]]

\* What one poll cycle must produce from known-set K and scanned names S: the
\* emission list out and the new known-set known.
ReconciledAs(K, S, out, known) ==
    /\ known = S
    /\ \A n \in K \cup S \cup {out[i].name : i \in DOMAIN out} :
        /\ CountEmitted(out, "device-connected", n) = (IF n \in S \ K THEN 1 ELSE 0)
        /\ CountEmitted(out, "device-disconnected", n) = (IF n \in K \ S THEN 1 ELSE 0)

\* C7: the latest poll cycle, run on known-set K and a scan with name set S,
\* emitted exactly one device-connected per name of S \ K, exactly one
\* device-disconnected per name of K \ S, nothing else, and left the known-set
\* equal to S; and the same holds of the cycle run on the scan entries in any
\* other order.
C7_PollReconciles ==
    lastPoll.ch # 0 =>
        LET K == lastPoll.known
            devs == lastPoll.scan
            S == CurrentNames(devs)
        IN /\ ReconciledAs(K, S, emitted, known_devices[lastPoll.ch])
           /\ \A p \in Orderings(1..Len(devs)), order \in Orderings(K \ S) :
                LET r == PollCycle(K, Rearranged(devs, p), order)
                IN ReconciledAs(K, S, r.out, r.known)

\* C7 witness: a poll cycle that found a known name gone and a new name
\* present (known-set {A}, scan {B}).
C7_Witness ==
    /\ lastPoll.ch # 0
    /\ lastPoll.known \ CurrentNames(lastPoll.scan) # {}
    /\ CurrentNames(lastPoll.scan) \ lastPoll.known # {}

\* ------------------------------------------------------------------------ C8
\* The rules in the order the specification numbers them, a label being too
\* long when it has more than MaxLabelLen characters.
RuleCC(rule, at, cc) ==
    IF cc > MaxCC THEN <<MsgCC(rule, at, cc)>> ELSE <<>>
RuleLabel(rule, at, label) ==
    IF CharCount(label) > MaxLabelLen THEN <<MsgLabel(rule, at, label)>> ELSE <<>>
RuleRange(rule, at, min, max) ==
    IF max < min THEN <<MsgRange(rule, at, max, min)>> ELSE <<>>

RECURSIVE Rule2(_, _)
Rule2(buttons, i) ==
    IF i > Len(buttons) THEN <<>>
    ELSE RuleCC("button_cc", i, buttons[i].cc) \o Rule2(buttons, i + 1)

RECURSIVE Rule3(_, _)
Rule3(buttons, i) ==
    IF i > Len(buttons) THEN <<>>
    ELSE RuleLabel("button_label", i, buttons[i].label) \o Rule3(buttons, i + 1)

Rule4(cfg) ==
    (IF cfg.device = "mini6" /\ cfg.encoder.some
     THEN <<MsgUnsupported("mini6_encoder")>> ELSE <<>>)
    \o (IF cfg.device = "mini6" /\ cfg.expression.some
        THEN <<MsgUnsupported("mini6_expression")>> ELSE <<>>)

Rule5(enc) ==
    IF ~enc.some THEN <<>>
    ELSE RuleCC("encoder_cc", 0, enc.cc)
         \o RuleLabel("encoder_label", 0, enc.label)
         \o RuleRange("encoder_range", 0, enc.min, enc.max)
         \o (IF enc.initial < enc.min \/ enc.initial > enc.max
             THEN <<MsgInitial(enc.initial, enc.min, enc.max)>> ELSE <<>>)

Rule6(enc) ==
    IF ~(enc.some /\ enc.push.some) THEN <<>>
    ELSE RuleCC("push_cc", 0, enc.push.cc)
         \o RuleLabel("push_label", 0, enc.push.label)

Rule7Slot(e, slot) ==
    RuleCC("exp_cc", slot, e.cc) \o RuleLabel("exp_label", slot, e.label)
    \o RuleRange("exp_range", slot, e.min, e.max)

Rule7(exp) ==
    IF ~exp.some THEN <<>>
    ELSE Rule7Slot(exp.exp1, 1) \o Rule7Slot(exp.exp2, 2)

RulesInSpecOrder(cfg) ==
    CountErrors(cfg) \o Rule2(cfg.buttons, 1) \o Rule3(cfg.buttons, 1)
    \o Rule4(cfg) \o Rule5(cfg.encoder) \o Rule6(cfg.encoder)
    \o Rule7(cfg.expression)

\* C8 (as claimed): the list validate returns holds exactly one message for
\* each violated rule and no other, in the order (1) button count, (2) button
\* CCs, (3) button labels, (4) Mini6 encoder/expression presence, (5) encoder
\* fields, (6) encoder push fields, (7) exp1 then exp2; it is empty, and the
\* result Ok, when no rule is violated.  The code reports each button's CC and
\* label together, reports the Mini6 expression message after the encoder's
\* messages, and measures labels in bytes.
C8_AllRulesInSpecOrder ==
    (vout.done /\ vin.parses) =>
        /\ vout.result.details = RulesInSpecOrder(vin.config)
        /\ vout.result.ok <=> (RulesInSpecOrder(vin.config) = <<>>)

\* ------------------------------------------------------------------------ C4
\* The volume directory above the place the path leads to, when there is one.
TargetVolume(path, m) ==
    LET c == canonicalize(path, m)
        above == {mp \in MountPoints : IsPrefix(mp, c)}
    IN IF c = NoPath \/ above = {} THEN NoPath ELSE CHOOSE mp \in above : TRUE

\* The target volume's directory exists and has the st_dev of "/".
TargetUnmounted(path, m) ==
    TargetVolume(path, m) # NoPath /\ Dev(TargetVolume(path, m), m) = RootDev

\* The roots under which removable volumes are mounted.
MediaRoots == {<<"Volumes">>, <<"media">>, <<"media", "u">>, <<"run", "media", "u">>}

\* The path leads into a volume directory, a direct child of a media root,
\* that carries a device name.
InDeviceVolume(path, m) ==
    LET c == canonicalize(path, m)
    IN /\ c # NoPath
       /\ \E k \in 1..Len(c) :
              /\ SubSeq(c, 1, k - 1) \in MediaRoots
              /\ IsDeviceName(c[k])

\* C4 (as claimed): when the mount check of a write command runs while the
\* volume the path leads into is unmounted (its directory has the root
\* filesystem's identifier), the command returns 'Device was disconnected'
\* and writes nothing.  The code checks the volume named by the text of the
\* path: for a path through a symbolic link it checks nothing, for a path
\* with ".." it checks another volume, and the write lands on the host.
C4_UnmountedTargetRefused ==
    \A i \in DOMAIN wcall.trace :
        (wcall.trace[i].step = "mount"
            /\ TargetUnmounted(wcall.path, wcall.trace[i].mnt)) =>
            /\ ~wcall.trace[i].ok
            /\ wcall.result = DeviceDisconnected
            /\ written = <<>>

\* ------------------------------------------------------------------------ C5
StepOrder == <<"auth", "mount", "validate", "write", "sync">>
StepsRun == [i \in DOMAIN wcall.trace |-> wcall.trace[i].step]

\* The error of the earliest step that fails when nothing changes under the
\* call, or Ok.
EarliestFailure(path, json, m) ==
    IF ~validate_device_path(path, m).ok THEN validate_device_path(path, m)
    ELSE IF ~verify_device_connected(path, m).ok THEN DeviceDisconnected
    ELSE IF ~json.parses THEN JsonParseError
    ELSE IF ~validate(json.config).ok
         THEN [ok |-> FALSE, message |-> "Validation failed",
               details |-> validate(json.config).errors, some |-> TRUE]
    ELSE IF WriteTarget(path, m) = NoPath THEN IoError
    ELSE OkResult

\* C5: a write command runs authorize, mount check, (parse and) validate,
\* write, flush in that order and stops at the first step that fails; a file
\* is written only after authorization, mount check and validation succeeded
\* in the same call; and when the volumes do not change under the call, the
\* result is the error of the earliest step that fails (path error, then
\* 'Device was disconnected', then parse or validation error with the whole
\* message list as details), or Ok.
C5_StepsInOrder ==
    /\ Len(wcall.trace) <= Len(StepOrder)
    /\ StepsRun = SubSeq(StepOrder, 1, Len(wcall.trace))
    /\ \A i \in DOMAIN wcall.trace :
          ~wcall.trace[i].ok /\ wcall.trace[i].step # "sync"
              => (i = Len(wcall.trace) /\ wcall.pc = "done")
    /\ (wcall.pc # "idle" /\ written # <<>>) =>
          /\ Len(wcall.trace) >= 4
          /\ \A i \in 1..4 : wcall.trace[i].ok
    /\ (wcall.pc = "done" /\ wcall.steady) =>
          wcall.result = EarliestFailure(wcall.path, wcall.json, mnt)

\* C5 witness: a call returned the path error for a path that fails
\* authorization, whose mount check would fail and whose payload is invalid.
C5_Witness ==
    /\ wcall.pc = "done"
    /\ wcall.steady
    /\ ~validate_device_path(wcall.path, mnt).ok
    /\ ~verify_device_connected(wcall.path, mnt).ok
    /\ wcall.json.parses /\ ~validate(wcall.json.config).ok
    /\ wcall.result = validate_device_path(wcall.path, mnt)

\* ------------------------------------------------------------------------ C6
\* C6 (as claimed): validate_device_path succeeds only for a path that
\* resolves into a volume directory, a direct child of a media root, labelled
\* CIRCUITPY or MIDICAPTAIN in any case.  Under /media/ and /run/media/ the
\* code takes the path's own last component for the volume name, so a file
\* named MIDICAPTAIN on another volume passes.
C6_OnlyDeviceVolumes ==
    \A i \in DOMAIN wcall.trace :
        (wcall.trace[i].step = "auth" /\ wcall.trace[i].ok) =>
            InDeviceVolume(wcall.path, wcall.trace[i].mnt)

\* ------------------------------------------------------------------------ C9
\* C9 (as claimed): a write command returns Ok only after the file it wrote
\* was opened and synced successfully.  sync_file drops the failure of
\* File::open and of sync_all, and the command returns Ok all the same.
C9_OkOnlyAfterSync ==
    (wcall.pc = "done" /\ wcall.result.ok) =>
        \E i \in DOMAIN wcall.trace :
            wcall.trace[i].step = "sync" /\ wcall.trace[i].ok

\* ----------------------------------------------------------------------- C11
\* C11 (as claimed): a start call returns Err exactly when creating the
\* filesystem watcher or subscribing to the volumes directory failed in it,
\* and then it spawned no thread; every other start call returns Ok, and one
\* that found the watcher Stopped has spawned exactly one thread, that of its
\* own channel.  After a failed setup the flag stays set (C2), and the next
\* start, finding no watcher, returns Ok without spawning.
C11_StartResult ==
    \A c \in Callers :
        (call[c].op = "start" /\ call[c].pc = "idle") =>
            /\ call[c].ret \in {"Ok", "Err"}
            /\ call[c].ret = "Err" <=> call[c].setup \in {"new_failed", "watch_failed"}
            /\ call[c].ret = "Err" => thr[call[c].ch] = "none"
            /\ (call[c].ret = "Ok" /\ call[c].found = "stopped") =>
                  (call[c].ch # 0 /\ thr[call[c].ch] # "none")

\* ----------------------------------------------------------------------- C12
\* The notifications the claim expects for one event.
ExpectedNotifications(event) ==
    LET created == SelectSeq(event.paths, LAMBDA p : check_volume(p).some)
        removed == SelectSeq(event.paths, LAMBDA p : IsDeviceName(p))
    IN CASE event.kind = "Create" ->
              [i \in DOMAIN created |-> Connected(check_volume(created[i]))]
         [] event.kind = "Remove" ->
              [i \in DOMAIN removed |-> Disconnected(removed[i])]
         [] OTHER -> <<>>

\* C12: each pass of the event thread through its loop body emits, for a
\* creation event, one device-connected per affected path that check_volume
\* accepts; for a removal event, one device-disconnected with the entry's name
\* per affected path whose final component is a device name in any case,
\* whatever the volumes present; and nothing for an event of another kind or
\* when the wait timed out.
C12_EventNotifications ==
    [][\A ch \in Chans :
          (platform = "unix" /\ thr[ch] = "body" /\ thr'[ch] = "top") =>
              emitted' = IF rx[ch] = <<>> THEN <<>>
                         ELSE ExpectedNotifications(Head(rx[ch]))]_vars

\* C12 witness: a removal event naming a device and another entry was
\* handled while no such volume was present: one device-disconnected.
C12_Witness ==
    /\ platform = "unix"
    /\ Len(emitted) = 1
    /\ emitted[1].ev = "device-disconnected"
    /\ \A d \in Drives : ~(vols[d].present /\ vols[d].name = emitted[1].name)
    /\ \E ch \in Chans : thr[ch] = "top" /\ rx[ch] = <<>>

\* ----------------------------------------------------------------------- C13
\* A step of stop_device_watcher: the only step that empties SHUTDOWN_TX,
\* records a stop request or leaves a caller with a returned stop.
IsStopStep ==
    \/ SHUTDOWN_TX # 0 /\ SHUTDOWN_TX' = 0
    \/ stopReq' # stopReq
    \/ \E c \in Callers : call'[c] # call[c] /\ call'[c].op = "stop"

\* Receivers of shutdown channel ch that are alive, and senders.
ReceiverCount(ch) ==
    Cardinality({c \in Callers : call[c].ch = ch /\ call[c].pc \in {"setup", "spawn"}})
    + (IF ch \in LiveThreads THEN 1 ELSE 0)
SenderCount(ch) == IF SHUTDOWN_TX = ch THEN 1 ELSE 0

VolumePaths == IF platform = "windows" THEN Drives ELSE VolNames

\* The volume's display name; "" when it has none.
DisplayName(path) ==
    IF platform = "windows"
    THEN (IF vols[path].present THEN vols[path].name ELSE "")
    ELSE path

\* The spellings of CIRCUITPY and MIDICAPTAIN that differ in case only.
DeviceNameSpellings == {"CIRCUITPY", "circuitpy", "MIDICAPTAIN", "midicaptain"}

\* C14: for every volume path, check_volume returns a device exactly when
\* the volume's display name is CIRCUITPY or MIDICAPTAIN in any case; the
\* device carries that name unchanged, the path, the path joined with
\* config.json, and has_config is true iff that file exists now.
C14_CheckVolume ==
    \A path \in VolumePaths :
        LET r == check_volume(path)
            name == DisplayName(path)
        IN /\ r.some <=> name \in DeviceNameSpellings
           /\ r.some =>
                 /\ r.name = name
                 /\ r.path = path
                 /\ r.config_path = <<path, "config.json">>
                 /\ r.has_config <=> ConfigExists(path)
           /\ ~r.some => r = NoDevice

\* C14 witness: a volume labelled midicaptain, in lower case, that holds a
\* config.json was classified and announced under that name.
C14_Witness ==
    \E i \in DOMAIN emitted :
        /\ emitted[i].ev = "device-connected"
        /\ emitted[i].name = "midicaptain"
        /\ emitted[i].has_config
        /\ emitted[i].config_path = <<emitted[i].path, "config.json">>

\* ------------------------------------------------------------- C15 .. C18
\* The messages of one rule in validate's list, and their number.
MessagesOf(rule) ==
    {i \in DOMAIN vout.result.details : vout.result.details[i].rule = rule}
CountOf(rule) == Cardinality(MessagesOf(rule))

\* validate_config has returned for a text that parsed.
Validated == vout.done /\ vin.parses

\* C15 (as claimed): a Std10 config with exactly 10 buttons, every cc at most
\* 127, every label of at most 8 characters and neither encoder nor
\* expression section is accepted; and validate returns Ok exactly when its
\* list is empty.  The code measures labels in bytes (C24) and rejects a
\* label of five 2-byte characters.
C15_ValidStd10Accepted ==
    Validated =>
        LET cfg == vin.config IN
        /\ ( /\ cfg.device = "std10"
             /\ Len(cfg.buttons) = 10
             /\ \A i \in DOMAIN cfg.buttons :
                   /\ cfg.buttons[i].cc \in 0..127
                   /\ CharCount(cfg.buttons[i].label) <= 8
             /\ ~cfg.encoder.some
             /\ ~cfg.expression.some )
           => vout.result.ok
        /\ vout.result.ok <=> vout.result.details = <<>>

\* The button count the device class mandates.
ClassCount(device) == CASE device = "std10" -> 10 [] device = "mini6" -> 6

\* C16: validate's list holds exactly one count-mismatch message, naming the
\* mandated and the found count, when the number of buttons differs from 10
\* (Std10) or 6 (Mini6), and none when it matches.
C16_CountMismatch ==
    Validated =>
        LET cfg == vin.config IN
        IF Len(cfg.buttons) # ClassCount(cfg.device)
        THEN /\ CountOf("count") = 1
             /\ \A i \in MessagesOf("count") :
                   /\ vout.result.details[i].a = ClassCount(cfg.device)
                   /\ vout.result.details[i].b = Len(cfg.buttons)
             /\ ~vout.result.ok
        ELSE CountOf("count") = 0

\* C16 witness: a Mini6 config with 10 buttons was validated and got its
\* count message.
C16_Witness ==
    /\ Validated
    /\ vin.config.device = "mini6"
    /\ Len(vin.config.buttons) = 10
    /\ CountOf("count") = 1

\* C17: for a Mini6 config, an encoder section always brings the 'does not
\* support encoder' message and an expression section the 'does not support
\* expression pedals' message, once each, whatever the section's fields; an
\* absent section and a Std10 config bring neither.
C17_Mini6Unsupported ==
    Validated =>
        LET cfg == vin.config IN
        /\ CountOf("mini6_encoder") =
              (IF cfg.device = "mini6" /\ cfg.encoder.some THEN 1 ELSE 0)
        /\ CountOf("mini6_expression") =
              (IF cfg.device = "mini6" /\ cfg.expression.some THEN 1 ELSE 0)
        /\ (cfg.device = "mini6" /\ (cfg.encoder.some \/ cfg.expression.some))
              => ~vout.result.ok

\* C17 witness: a Mini6 config whose encoder and expression sections have
\* valid fields was validated and got exactly the two messages.
C17_Witness ==
    /\ Validated
    /\ vin.config.device = "mini6"
    /\ vin.config.encoder.some /\ vin.config.expression.some
    /\ Len(vin.config.buttons) = 6
    /\ Len(vout.result.details) = 2
    /\ CountOf("mini6_encoder") = 1 /\ CountOf("mini6_expression") = 1

\* C18: an encoder with max < min makes validate fail with one message
\* naming max and min; an initial value outside [min, max] makes it fail
\* with one message naming initial, min and max; an encoder with
\* min <= initial <= max gets neither message.
C18_EncoderRange ==
    (Validated /\ vin.config.encoder.some) =>
        LET enc == vin.config.encoder
            inverted == enc.max < enc.min
            outside == enc.initial < enc.min \/ enc.initial > enc.max
        IN /\ CountOf("encoder_range") = (IF inverted THEN 1 ELSE 0)
           /\ CountOf("encoder_initial") = (IF outside THEN 1 ELSE 0)
           /\ \A i \in MessagesOf("encoder_range") :
                 vout.result.details[i].a = enc.max /\ vout.result.details[i].b = enc.min
           /\ \A i \in MessagesOf("encoder_initial") :
                 /\ vout.result.details[i].at = enc.initial
                 /\ vout.result.details[i].b = enc.min
                 /\ vout.result.details[i].a = enc.max
           /\ (inverted \/ outside) => ~vout.result.ok
           /\ (enc.min <= enc.initial /\ enc.initial <= enc.max) =>
                 CountOf("encoder_range") + CountOf("encoder_initial") = 0

\* C18 witness: an encoder with a proper range and an initial value above
\* max was validated and got the initial-value message alone of the two.
C18_Witness ==
    /\ Validated
    /\ vin.config.encoder.some
    /\ vin.config.encoder.min <= vin.config.encoder.max
    /\ vin.config.encoder.initial > vin.config.encoder.max
    /\ CountOf("encoder_initial") = 1 /\ CountOf("encoder_range") = 0

\* -------------------------------------------------------------------- C19
\* C19: a config that passed validation and was serialized deserializes, from
\* its serialized text, into an equal config: the off_mode omitted when Dim,
\* the omitted encoder and expression sections, and the fields the first
\* parse filled with defaults (device, mode, min, max, initial, polarity,
\* threshold) come back with the same values.
C19_RoundTrip ==
    /\ rt.pc \in {"written", "read"} => validate(rt.config.config).ok
    /\ rt.pc = "read" =>
          /\ rt.back.parses
          /\ rt.back.config = rt.config.config
          /\ to_string_pretty(rt.back.config) = rt.file[1]

\* C19 witness: a text without device and expression, whose first button
\* names neither mode nor off_mode, whose second button has off_mode Off and
\* whose encoder names no field that has a default, was serialized without
\* the first button's off_mode and the expression section, and read back
\* with the defaults of the first parse.
C19_Witness ==
    /\ rt.pc = "read"
    /\ DOMAIN rt.text[1] = {"buttons", "encoder"}
    /\ DOMAIN rt.text[1].buttons[1] = {"label", "cc", "color"}
    /\ Len(rt.text[1].encoder) = 1
    /\ DOMAIN rt.text[1].encoder[1] = {"enabled", "cc", "label"}
    /\ DOMAIN rt.file[1] = {"device", "buttons", "encoder"}
    /\ "off_mode" \notin DOMAIN rt.file[1].buttons[1]
    /\ rt.file[1].buttons[2].off_mode = "off"
    /\ rt.back.config.buttons[1].off_mode = "dim"
    /\ rt.back.config.buttons[1].mode = "toggle"
    /\ rt.back.config.device = "std10"
    /\ rt.back.config.encoder.min = 0
    /\ rt.back.config.encoder.max = DefaultMax
    /\ rt.back.config.encoder.initial = DefaultInitial
    /\ ~rt.back.config.expression.some

\* -------------------------------------------------------------------- C20
\* The latest command issued was a start, and it returned success.
StartedLast(c) ==
    /\ call[c].pc = "idle"
    /\ call[c].op = "start"
    /\ call[c].ret = "Ok"

\* C20 (as claimed): when the commands are issued one at a time and the
\* latest of them is a start that returned success, so that no stop was made
\* after it was invoked, a watcher thread exists; also when that start came
\* right after a stop whose loop had not yet exited.  The code returns
\* success from such a start without spawning, and the stopped loop then
\* exits.
C20_StartedMeansRunning ==
    StartedLast(FirstCaller) => LiveThreads # {}

\* -------------------------------------------------------------------- C21
\* The volume under which authorization found the canonical path.
AuthorizedVolume(path, m) == FirstVolumeAncestor(canonicalize(path, m))

\* C21 (as claimed): when a write command's authorization succeeded, its
\* mount check is made, and on the volume under which authorization found
\* the canonical path.  The code derives the volume to check from the text
\* of the supplied path: for a path through a symbolic link it finds no
\* volume and skips the check, for a path with ".." it checks the volume
\* named before the "..".
C21_MountCheckOnAuthorizedVolume ==
    \A i \in DOMAIN wcall.trace :
        (wcall.trace[i].step = "mount" /\ i > 1) =>
            LET seen == wcall.trace[i - 1].mnt
                checked == get_volume_path(wcall.path)
            IN /\ checked # NoPath
               /\ canonicalize(checked, seen) = AuthorizedVolume(wcall.path, seen)

\* -------------------------------------------------------------------- C22
\* The device volume the supplied path names, when it names one.
NamedDevice(path) == get_volume_path(path)

\* A supplied path without ".." and symbolic links, whose text names the
\* volume it leads into: the mount check looks at the right volume.
PlainDevicePath == wcall.path \in {d \o <<"config.json">> : d \in DeviceMounts}

\* C22 (as claimed, for a plain path into a device volume): under every
\* interleaving of a device removal with a write command, the write step
\* runs only while the volume is mounted, and no file is written onto the
\* host's root filesystem.  The code checks the mount once, before
\* validating; a removal after that check goes unnoticed and the write lands
\* in the directory the volume left on the host.
C22_WriteOnlyWhileMounted ==
    PlainDevicePath =>
        /\ \A i \in DOMAIN wcall.trace :
              wcall.trace[i].step = "write" =>
                  wcall.trace[i].mnt[NamedDevice(wcall.path)] = "mounted"
        /\ \A k \in DOMAIN written : written[k].dev # RootDev

\* -------------------------------------------------------------------- C23
\* The devices a scan reports, on either unix target, with a config file and
\* with their volume mounted.
ScannedWithConfig(m) ==
    {dev \in UNION {scan_devices(os, m) : os \in UnixTargets} :
        /\ dev.has_config
        /\ dev.path \in DeviceMounts
        /\ m[dev.path] = "mounted"}

\* C23 (as claimed): a write command given the config_path that scan_devices
\* reports for a mounted device with has_config true passes authorization.
\* Under /media/<user> the code takes the path's own last component,
\* config.json, for the volume name and refuses the path.
C23_ScannedPathAuthorized ==
    \A i \in DOMAIN wcall.trace :
        (wcall.trace[i].step = "auth"
            /\ \E dev \in ScannedWithConfig(wcall.trace[i].mnt) :
                  dev.config_path = wcall.path)
        => wcall.trace[i].ok

\* -------------------------------------------------------------------- C26
\* The device names present on the host.
DeviceNamesPresent ==
    {vols[d].name : d \in {d2 \in Drives : vols[d2].present /\ IsDeviceName(vols[d2].name)}}

\* The notification list out holds one device-connected per name of gained,
\* one device-disconnected per name of lost, and nothing else.
NotifiesExactly(out, gained, lost) ==
    \A n \in VolNames \cup {out[i].name : i \in DOMAIN out} :
        /\ CountEmitted(out, "device-connected", n) = (IF n \in gained THEN 1 ELSE 0)
        /\ CountEmitted(out, "device-disconnected", n) = (IF n \in lost THEN 1 ELSE 0)

\* The device names an occurrence attaches and detaches, as the event reports it.
Attached(event) ==
    IF event.kind = "Create"
    THEN {event.paths[i] : i \in {j \in DOMAIN event.paths : IsDeviceName(event.paths[j])}}
    ELSE {}
Detached(event) ==
    IF event.kind = "Remove"
    THEN {event.paths[i] : i \in {j \in DOMAIN event.paths : IsDeviceName(event.paths[j])}}
    ELSE {}

\* C26 (as claimed): from the moment start returned, both watchers report the
\* same thing, the attachments and detachments of device volumes since their
\* previous look: the polling watcher, at each poll, the names gained and
\* lost since the volumes it last saw, which at its first poll are the
\* volumes present when it was started; the event watcher, per occurrence,
\* the name attached or detached.  Neither reports a device present at the
\* start.  The polling thread takes its first look after start has returned,
\* and a device attached in between is never reported.
C26_SameNotifications ==
    [][\A ch \in Chans :
          (thr[ch] = "body" /\ thr'[ch] = "top") =>
              IF platform = "windows"
              THEN NotifiesExactly(emitted',
                       DeviceNamesPresent \ CurrentNames(lastPoll.scan),
                       CurrentNames(lastPoll.scan) \ DeviceNamesPresent)
              ELSE IF rx[ch] = <<>> THEN emitted' = <<>>
              ELSE NotifiesExactly(emitted', Attached(Head(rx[ch])),
                                   Detached(Head(rx[ch])))]_vars

\* -------------------------------------------------------------------- C24
\* validate's list holds a label message of this rule for this place.
LabelReported(rule, at) ==
    \E i \in MessagesOf(rule) : vout.result.details[i].at = at

\* C24 (as claimed): for the label of every button, of the encoder, of its
\* push button and of both expression pedals, validate reports a label error
\* exactly when the label has more than 8 characters, whatever their width
\* in bytes.  The code compares String::len(), the length in bytes, and
\* reports a label of five 2-byte characters.
C24_LabelCountsCharacters ==
    Validated =>
        LET cfg == vin.config IN
        /\ \A i \in DOMAIN cfg.buttons :
              LabelReported("button_label", i) <=> CharCount(cfg.buttons[i].label) > 8
        /\ cfg.encoder.some =>
              (LabelReported("encoder_label", 0) <=> CharCount(cfg.encoder.label) > 8)
        /\ (cfg.encoder.some /\ cfg.encoder.push.some) =>
              (LabelReported("push_label", 0) <=> CharCount(cfg.encoder.push.label) > 8)
        /\ cfg.expression.some =>
              /\ LabelReported("exp_label", 1) <=> CharCount(cfg.expression.exp1.label) > 8
              /\ LabelReported("exp_label", 2) <=> CharCount(cfg.expression.exp2.label) > 8

\* -------------------------------------------------------------------- C25
\* A value range of the data model: both bounds within 0..127, max >= min.
RangeInModel(min, max) == min \in 0..127 /\ max \in 0..127 /\ max >= min

\* C25 (as claimed): a config validate accepts has its encoder range and both
\* expression ranges within 0..127 with max >= min, and the encoder's initial
\* value within its range.  The code tests max >= min and the initial value,
\* but no bound against 127: a range of 0..200 is accepted.
C25_AcceptedRangesInModel ==
    (Validated /\ vout.result.ok) =>
        LET cfg == vin.config IN
        /\ cfg.encoder.some =>
              /\ RangeInModel(cfg.encoder.min, cfg.encoder.max)
              /\ cfg.encoder.min <= cfg.encoder.initial
              /\ cfg.encoder.initial <= cfg.encoder.max
        /\ cfg.expression.some =>
              /\ RangeInModel(cfg.expression.exp1.min, cfg.expression.exp1.max)
              /\ RangeInModel(cfg.expression.exp2.min, cfg.expression.exp2.max)

====
